---- MODULE Spec2Model ----
(***************************************************************************)
(* A model of the bookmark-converter repository: the BFS directory        *)
(* explorer (controllers/os_controller.py), the filesystem item           *)
(* abstraction and its factory (models/base_system.py), the tree builder   *)
(* and folder tools (utils/folders_tools.py), the file tools               *)
(* (utils/files_tools.py), the metadata collector                          *)
(* (utils/system_path_info.py) and the name and size helpers, over a       *)
(* small POSIX-like filesystem.                                            *)
(*                                                                         *)
(* Strings are sequences of one-character strings, so that startswith,    *)
(* lower, strip and pathlib's suffix are computed, not assumed.  A path    *)
(* is a sequence of parts (pathlib's Path.parts), the first its anchor.    *)
(***************************************************************************)
EXTENDS Integers, Sequences, FiniteSets, TLC

VARIABLES
    fs,         \* the filesystem: inode -> attributes
    fsChanges,  \* number of changes other processes made to the filesystem
    ctrl,       \* the FileExplorerController object (or none / failed)
    calls,      \* number of method calls made on the controller
    last,       \* the last operation and what it returned
    arvore,     \* the last result of folder_method_montar_arvore
    item,       \* the FileSystemItem under observation
    probe,      \* what the OS answered to the factory's last inspection
    ret,        \* the last call of a utility function and what it returned
    cache       \* ColetorDeMetadados._hash_cache: path -> (sha256, md5)

vars == <<fs, fsChanges, ctrl, calls, last, arvore, item, probe, ret, cache>>

(***************************************************************************)
(* Bounds of the model.                                                    *)
(***************************************************************************)
MaxFsChanges == 1
MaxCalls == 2
MaxDepthArg == 2
MaxHistory == 2
MaxFolders == 2

(***************************************************************************)
(* Strings.                                                                *)
(***************************************************************************)
\* str.lower() on the alphabet of the model
LowerChar(c) ==
    CASE c = "H" -> "h"
      [] c = "T" -> "t"
      [] OTHER -> c

Lower(s) == [i \in 1..Len(s) |-> LowerChar(s[i])]

StartsWith(s, p) == Len(s) >= Len(p) /\ SubSeq(s, 1, Len(p)) = p

EndsWith(s, p) == Len(s) >= Len(p) /\ SubSeq(s, Len(s) - Len(p) + 1, Len(s)) = p

\* str.lstrip(c)
RECURSIVE LStrip(_, _)
LStrip(s, c) ==
    IF s # <<>> /\ s[1] = c THEN LStrip(Tail(s), c) ELSE s

\* str.rstrip(c)
RECURSIVE RStrip(_, _)
RStrip(s, c) ==
    IF s # <<>> /\ s[Len(s)] = c THEN RStrip(SubSeq(s, 1, Len(s) - 1), c) ELSE s

\* str.strip(): whitespace off both ends
Strip(s) == RStrip(LStrip(s, " "), " ")

\* str.rfind("."), 1-based, 0 when absent
RFindDot(s) ==
    LET dots == {i \in 1..Len(s) : s[i] = "."}
    IN  IF dots = {} THEN 0 ELSE CHOOSE i \in dots : \A j \in dots : j <= i

\* pathlib.PurePath.suffix of a file name
Suffix(name) ==
    LET i == RFindDot(name)
    IN  IF 1 < i /\ i < Len(name) THEN SubSeq(name, i, Len(name)) ELSE <<>>

InSeq(x, s) == \E i \in 1..Len(s) : s[i] = x

NoDup(s) == \A i, j \in 1..Len(s) : s[i] = s[j] => i = j

IsPrefix(s, t) == Len(s) <= Len(t) /\ SubSeq(t, 1, Len(s)) = s

SeqToSet(s) == {s[i] : i \in 1..Len(s)}

\* Body applied to the value of v, v evaluated once (a strict let)
Let(v, Body(_)) == CHOOSE r \in {Body(x) : x \in {v}} : TRUE

(***************************************************************************)
(* The filesystem.                                                         *)
(***************************************************************************)
None == <<"None">>

NoInode == 0 - 1

Inodes == 0..12

N_anchor == <<"/">>
N_r == <<"r">>
N_a == <<"a">>
N_hc == <<".", "c">>
N_rH == <<"r", ".", "H">>
N_nt == <<"n", ".", "t">>
N_d == <<"d">>
N_ih == <<"i", ".", "h">>
N_colon == <<".", ":">>
N_x == <<"x">>
N_l == <<"l">>
N_zz == <<"z", "z">>
N_zt == <<"z", ".", "t">>
N_bm == <<"b", "o", "o", "k", "m", "a", "r", "k", "s", ".", "h">>

Node(kind, name, entries, target) ==
    [kind |-> kind, name |-> name, entries |-> entries, target |-> target,
     r |-> TRUE, w |-> TRUE, x |-> TRUE, listErr |-> FALSE, denied |-> FALSE,
     content |-> <<>>]

\* Two trees under /r.  The plain one has no hidden entry and no link:
\*  /r          a/ x/ r.H n.t
\*  /r/a        d/ i.h
\*  /r/a/d      bookmarks.h
\* the other has hidden directories and a link back to /r:
\*  /r          a/ .c/ r.H n.t
\*  /r/a        d/ i.h .:/
\*  /r/a/d      l -> /r    bookmarks.h
\*  /r/.c       x/
InitialFs(plain) ==
    [i \in Inodes |->
        CASE i = 0 -> Node("dir", N_anchor, <<1>>, NoInode)
          [] i = 1 -> Node("dir", N_r, IF plain THEN <<2, 9, 4, 5>> ELSE <<2, 3, 4, 5>>, NoInode)
          [] i = 2 -> Node("dir", N_a, IF plain THEN <<6, 7>> ELSE <<6, 7, 8>>, NoInode)
          [] i = 3 -> Node("dir", N_hc, IF plain THEN <<>> ELSE <<9>>, NoInode)
          [] i = 4 -> [Node("file", N_rH, <<>>, NoInode) EXCEPT !.content = <<97, 13, 98>>]
          [] i = 5 -> Node("file", N_nt, <<>>, NoInode)
          [] i = 6 -> Node("dir", N_d, IF plain THEN <<11>> ELSE <<10, 11>>, NoInode)
          [] i = 7 -> [Node("file", N_ih, <<>>, NoInode) EXCEPT !.content = <<255>>]
          [] i = 8 -> Node("dir", N_colon, <<>>, NoInode)
          [] i = 9 -> Node("dir", N_x, <<>>, NoInode)
          [] i = 10 -> Node("link", N_l, <<>>, 1)
          [] i = 11 -> [Node("file", N_bm, <<>>, NoInode) EXCEPT !.content = <<104, 105>>]
          [] OTHER -> Node("free", <<>>, <<>>, NoInode)]

\* a symbolic link is followed to its target (targets are never links here)
Follow(i) == IF i # NoInode /\ fs[i].kind = "link" THEN fs[i].target ELSE i

\* the entry of directory inode dir that is called name
Lookup(dir, name) ==
    LET hits == {e \in SeqToSet(fs[dir].entries) : fs[e].name = name}
    IN  IF hits = {} THEN NoInode ELSE CHOOSE e \in hits : TRUE

\* os.stat / os.lstat: walks the parts from the anchor; every directory on the
\* way needs search (x) permission, else EACCES; a missing entry is ENOENT; an
\* inode that refuses its stat gives EACCES
RECURSIVE Walk(_, _, _, _)
Walk(path, k, cur, followLast) ==
    IF fs[cur].denied THEN [err |-> "EACCES", ino |-> NoInode]
    ELSE IF k > Len(path) THEN [err |-> "ok", ino |-> cur]
    ELSE IF fs[cur].kind # "dir" THEN [err |-> "ENOENT", ino |-> NoInode]
    ELSE IF ~fs[cur].x THEN [err |-> "EACCES", ino |-> NoInode]
    ELSE Let(Lookup(cur, path[k]), LAMBDA e :
             IF e = NoInode THEN [err |-> "ENOENT", ino |-> NoInode]
             ELSE Walk(path, k + 1,
                       IF k = Len(path) /\ ~followLast THEN e ELSE Follow(e),
                       followLast))

Stat(path) ==
    Let(path, LAMBDA p :
        IF p = <<>> \/ p[1] # N_anchor THEN [err |-> "ENOENT", ino |-> NoInode]
        ELSE Walk(p, 2, 0, TRUE))

LStat(path) ==
    Let(path, LAMBDA p :
        IF p = <<>> \/ p[1] # N_anchor THEN [err |-> "ENOENT", ino |-> NoInode]
        ELSE Walk(p, 2, 0, FALSE))

\* pathlib's is_dir/is_file/is_symlink answer False on ENOENT and raise on
\* the other errors
StatRaises(path) == Stat(path).err = "EACCES"

LStatRaises(path) == LStat(path).err = "EACCES"

Exists(path) == Stat(path).err = "ok"

IsDir(path) == Let(Stat(path), LAMBDA st : st.err = "ok" /\ fs[st.ino].kind = "dir")

IsFile(path) == Let(Stat(path), LAMBDA st : st.err = "ok" /\ fs[st.ino].kind = "file")

IsSymlink(path) == Let(LStat(path), LAMBDA st : st.err = "ok" /\ fs[st.ino].kind = "link")

\* os.access(path, R_OK) and os.access(path, R_OK | X_OK): False on any error
AccessR(path) == Let(Stat(path), LAMBDA st : st.err = "ok" /\ fs[st.ino].r)

AccessW(path) == Let(Stat(path), LAMBDA st : st.err = "ok" /\ fs[st.ino].w)

AccessRX(path) ==
    Let(Stat(path), LAMBDA st : st.err = "ok" /\ fs[st.ino].r /\ fs[st.ino].x)

\* Path.iterdir(): the error os.listdir raises, "none" for a readable directory
ListError(path) ==
    Let(Stat(path), LAMBDA st :
        IF st.err = "EACCES" THEN "PermissionError"
        ELSE IF st.err = "ENOENT" THEN "FileNotFoundError"
        ELSE IF fs[st.ino].kind # "dir" THEN "NotADirectoryError"
        ELSE IF ~fs[st.ino].r THEN "PermissionError"
        ELSE IF fs[st.ino].listErr THEN "OSError"
        ELSE "none")

\* the children iterdir yields, in the order of the listing
Listing(path) ==
    Let(fs[Stat(path).ino].entries, LAMBDA es :
        [k \in 1..Len(es) |-> Append(path, fs[es[k]].name)])

P_r == <<N_anchor, N_r>>
P_a == <<N_anchor, N_r, N_a>>
P_d == <<N_anchor, N_r, N_a, N_d>>
P_hc == <<N_anchor, N_r, N_hc>>
P_colon == <<N_anchor, N_r, N_a, N_colon>>
P_nt == <<N_anchor, N_r, N_nt>>
P_zz == <<N_anchor, N_zz>>
P_zt == <<N_anchor, N_zt>>

(***************************************************************************)
(* FileExplorerController (controllers/os_controller.py).                  *)
(***************************************************************************)
\* every OS-level exception class is a subclass of OSError
OSErrors == {"PermissionError", "FileNotFoundError", "NotADirectoryError", "OSError"}

NormalizeExt(ext) ==
    IF ext = None \/ ext = <<>> THEN None
    ELSE <<".">> \o LStrip(Lower(Strip(ext)), ".")

IsAnchorPart(part) ==
    \/ part \in {<<"/">>, <<"\\">>}
    \/ (Len(part) = 2 /\ EndsWith(part, <<":">>))

IsVisible(path) ==
    \A k \in 1..Len(path) :
        IsAnchorPart(path[k]) \/ ~StartsWith(path[k], <<".">>)

HasReadPermission(path) ==
    IF StatRaises(path) THEN FALSE
    ELSE IF IsDir(path) THEN AccessRX(path) ELSE AccessR(path)

ValidatePath(path) == IsVisible(path) /\ HasReadPermission(path)

\* a narrower except clause in _list_childs
ListChildsCaught_PermissionOnly == {"PermissionError"}

\* the exceptions the try block of _list_childs absorbs
ListChildsCaught == OSErrors

\* the exceptions the try block of _separate absorbs
SeparateCaught == OSErrors

\* the loop of _list_childs from the k-th child on; acc = [childs, invalids, exc]
RECURSIVE ListChildsFrom(_, _, _, _, _)
ListChildsFrom(folder, lst, k, follow, acc0) ==
    Let(acc0, LAMBDA acc :
    IF k > Len(lst) THEN acc
    ELSE Let(lst[k], LAMBDA child :
             IF ~follow /\ LStatRaises(child)
             THEN IF "PermissionError" \in ListChildsCaught
                  THEN [acc EXCEPT !.invalids = Append(@, folder)]
                  ELSE [acc EXCEPT !.exc = "PermissionError"]
             ELSE IF ~follow /\ IsSymlink(child)
             THEN ListChildsFrom(folder, lst, k + 1, follow, acc)
             ELSE IF ValidatePath(child)
             THEN ListChildsFrom(folder, lst, k + 1, follow,
                                 [acc EXCEPT !.childs = Append(@, child)])
             ELSE ListChildsFrom(folder, lst, k + 1, follow,
                                 [acc EXCEPT !.invalids = Append(@, child)])))

ListChilds(folder, follow, invalids) ==
    Let([childs |-> <<>>, invalids |-> invalids, exc |-> "none"], LAMBDA acc :
    Let(ListError(folder), LAMBDA err :
        IF err # "none"
        THEN IF err \in ListChildsCaught
             THEN [acc EXCEPT !.invalids = Append(@, folder)]
             ELSE [acc EXCEPT !.exc = err]
        ELSE Let(Listing(folder), LAMBDA lst :
                 ListChildsFrom(folder, lst, 1, follow, acc))))

\* the suffix compared as it is spelled
ExtMatches_CaseSensitive(child, target_ext) ==
    target_ext = None \/ Suffix(child[Len(child)]) = target_ext

\* whether _separate keeps a file
ExtMatches(child, target_ext) ==
    target_ext = None \/ Lower(Suffix(child[Len(child)])) = target_ext

\* the loop of _separate from the k-th child on; acc = [files, folders, invalids, exc]
RECURSIVE SeparateFrom(_, _, _, _)
SeparateFrom(childs, k, target_ext, acc0) ==
    Let(acc0, LAMBDA acc :
    IF k > Len(childs) \/ acc.exc # "none" THEN acc
    ELSE Let(childs[k], LAMBDA child :
             IF StatRaises(child)
             THEN IF "PermissionError" \in SeparateCaught
                  THEN SeparateFrom(childs, k + 1, target_ext,
                                    [acc EXCEPT !.invalids = Append(@, child)])
                  ELSE [acc EXCEPT !.exc = "PermissionError"]
             ELSE IF IsDir(child)
             THEN SeparateFrom(childs, k + 1, target_ext,
                               [acc EXCEPT !.folders = Append(@, child)])
             ELSE IF IsFile(child) /\ ExtMatches(child, target_ext)
             THEN SeparateFrom(childs, k + 1, target_ext,
                               [acc EXCEPT !.files = Append(@, child)])
             ELSE SeparateFrom(childs, k + 1, target_ext, acc)))

Separate(childs, target_ext, invalids) ==
    SeparateFrom(childs, 1, target_ext,
                 [files |-> <<>>, folders |-> <<>>, invalids |-> invalids, exc |-> "none"])

\* what _explore_level hands to the next level for one folder
NextLevelOf(folders, seen) == folders

\* the new entries appended last one first
NewOnes_Reversed(found, seen) ==
    Let(SelectSeq(found, LAMBDA p : ~InSeq(p, seen)), LAMBDA new :
        [i \in 1..Len(new) |-> new[Len(new) + 1 - i]])

\* what _explore_level appends to an accumulator
NewOnes(found, seen) == SelectSeq(found, LAMBDA p : ~InSeq(p, seen))

\* the loop of _explore_level from the k-th folder of the frontier on;
\* st = [files, folders, invalids, exc, next_level, levels]
RECURSIVE ExploreLevelFrom(_, _, _, _, _)
ExploreLevelFrom(frontier, k, target_ext, follow, st0) ==
    Let(st0, LAMBDA st :
    IF k > Len(frontier) \/ st.exc # "none" THEN st
    ELSE Let(ListChilds(frontier[k], follow, st.invalids), LAMBDA lc :
         Let(Separate(lc.childs, target_ext, lc.invalids), LAMBDA sp :
             IF lc.exc # "none" THEN [st EXCEPT !.exc = lc.exc]
             ELSE IF sp.exc # "none" THEN [st EXCEPT !.exc = sp.exc]
             ELSE ExploreLevelFrom(frontier, k + 1, target_ext, follow,
                    [st EXCEPT
                       !.files = @ \o NewOnes(sp.files, st.files),
                       !.folders = @ \o NewOnes(sp.folders, st.folders),
                       !.invalids = sp.invalids,
                       !.next_level = @ \o NextLevelOf(sp.folders, st.folders)]))))

\* a loop that goes on with an empty frontier
FrontierDone_Never(frontier) == FALSE

\* the early exit of the loop of explore_folder: "if not frontier: break"
FrontierDone(frontier) == frontier = <<>>

\* a loop that stops one level early
LevelRange_OneShort(max_depth) == 0..(max_depth - 1)

\* the levels the loop of explore_folder runs
LevelRange(max_depth) == 0..max_depth

\* a loop with no last level
MoreLevels_Always(level, max_depth) == TRUE

\* the guard of "for level in range(self.max_depth + 1)"
MoreLevels(level, max_depth) == level \in LevelRange(max_depth)

\* the loop of explore_folder from one level on;
\* st = [files, folders, invalids, exc, next_level, levels]
RECURSIVE ExploreLevels(_, _, _, _, _, _)
ExploreLevels(frontier0, level, max_depth, target_ext, follow, st0) ==
    Let(st0, LAMBDA st : Let(frontier0, LAMBDA frontier :
    IF ~MoreLevels(level, max_depth) \/ FrontierDone(frontier) \/ st.exc # "none" THEN st
    ELSE Let(ExploreLevelFrom(frontier, 1, target_ext, follow,
                              [st EXCEPT !.next_level = <<>>]), LAMBDA lv :
             ExploreLevels(lv.next_level, level + 1, max_depth, target_ext, follow,
                           [lv EXCEPT !.levels = Append(@, frontier)]))))

\* explore_folder on controller c: the accumulators it leaves, the exception
\* it raises ("none" when it returns) and the frontiers it expanded
ExploreResult(c) ==
    ExploreLevels(<<c.base_path>>, 0, c.max_depth, c.target_ext, c.follow_symlinks,
                  [files |-> c.files,
                   folders |-> IF InSeq(c.base_path, c.folders) THEN c.folders
                               ELSE Append(c.folders, c.base_path),
                   invalids |-> c.invalids,
                   exc |-> "none",
                   next_level |-> <<>>,
                   levels |-> <<>>])

Max(a, b) == IF a >= b THEN a ELSE b

ExtArgs == {None, <<>>, <<" ", ".", "H">>}

\* the arguments the controller is constructed with: every combination on /r,
\* the defaults' shape on a hidden directory, on /r/a/.: and on a file, and
\* /r/a/d (which holds the link back to /r) with links followed
ConstructArgs ==
    ({P_r} \X ((0 - 1)..MaxDepthArg) \X ExtArgs \X BOOLEAN)
    \cup ({P_hc, P_colon, P_nt, Append(P_hc, N_x)} \X {1} \X {None} \X {FALSE})
    \cup ({P_d} \X {MaxDepthArg} \X {None} \X {TRUE})

\* the controllers whose traversal is followed level by level: /r with the
\* smallest and the largest depth, links followed or not, and /r/a/d with
\* links followed
TraverseArgs ==
    ({P_r} \X {0, MaxDepthArg} \X {None} \X BOOLEAN)
    \cup ({P_d} \X {MaxDepthArg} \X {None} \X {TRUE})

NoCtrl ==
    [state |-> "none", base_path |-> <<>>, max_depth |-> 0, target_ext |-> None,
     follow_symlinks |-> FALSE, files |-> <<>>, folders |-> <<>>, invalids |-> <<>>]

\* FileExplorerController(base_path, max_depth, target_ext, follow_symlinks)
Construct(base_path, max_depth, target_ext, follow_symlinks) ==
    /\ ctrl.state = "none"
    /\ LET c == [state |-> "ok",
                 base_path |-> base_path,
                 max_depth |-> Max(0, max_depth),
                 target_ext |-> NormalizeExt(target_ext),
                 follow_symlinks |-> follow_symlinks,
                 files |-> <<>>, folders |-> <<>>, invalids |-> <<>>]
       IN  IF ~IsVisible(c.base_path) \/ ~HasReadPermission(c.base_path)
           THEN /\ ctrl' = [NoCtrl EXCEPT !.state = "failed", !.base_path = c.base_path]
                /\ last' = [op |-> "construct", exc |-> "ValueError", levels |-> <<>>, at |-> fsChanges]
           ELSE /\ ctrl' = c
                /\ last' = [op |-> "construct", exc |-> "none", levels |-> <<>>, at |-> fsChanges]
    /\ UNCHANGED <<fs, fsChanges, calls, arvore, item, probe, ret, cache>>

\* controller.explore_folder()
ExploreFolder ==
    /\ ctrl.state = "ok"
    /\ calls < MaxCalls
    /\ \E res \in {ExploreResult(ctrl)} :
           /\ ctrl' = [ctrl EXCEPT !.files = res.files, !.folders = res.folders,
                                   !.invalids = res.invalids]
           /\ last' = [op |-> "explore", exc |-> res.exc, levels |-> res.levels, at |-> fsChanges]
    /\ calls' = calls + 1
    /\ UNCHANGED <<fs, fsChanges, arvore, item, probe, ret, cache>>

\* explore_folder taken one level at a time: ret holds the position of its
\* loop (the level, the frontier and the number of levels expanded so far),
\* and other processes may change the filesystem between two levels
TraverseBegin ==
    /\ ctrl.state = "ok"
    /\ calls < MaxCalls
    /\ ret.op # "exploring"
    /\ ctrl' = [ctrl EXCEPT !.folders = IF InSeq(ctrl.base_path, @) THEN @
                                        ELSE Append(@, ctrl.base_path)]
    /\ ret' = [op |-> "exploring", exc |-> "none", level |-> 0,
               frontier |-> <<ctrl.base_path>>, expansions |-> 0]
    /\ calls' = calls + 1
    /\ UNCHANGED <<fs, fsChanges, last, arvore, item, probe, cache>>

\* one turn of the loop: frontier = self._explore_level(frontier, level)
TraverseLevel ==
    /\ ret.op = "exploring"
    /\ MoreLevels(ret.level, ctrl.max_depth)
    /\ ~FrontierDone(ret.frontier)
    /\ \E lv \in {ExploreLevelFrom(ret.frontier, 1, ctrl.target_ext, ctrl.follow_symlinks,
                                    [files |-> ctrl.files, folders |-> ctrl.folders,
                                     invalids |-> ctrl.invalids, exc |-> "none",
                                     next_level |-> <<>>, levels |-> <<>>])} :
           /\ ctrl' = [ctrl EXCEPT !.files = lv.files, !.folders = lv.folders,
                                   !.invalids = lv.invalids]
           /\ ret' = IF lv.exc # "none"
                     THEN [ret EXCEPT !.op = "explored", !.exc = lv.exc,
                                      !.expansions = @ + 1]
                     ELSE [ret EXCEPT !.level = @ + 1, !.frontier = lv.next_level,
                                      !.expansions = @ + 1]
    /\ UNCHANGED <<fs, fsChanges, calls, last, arvore, item, probe, cache>>

\* the loop is over (range exhausted or "if not frontier: break") and the
\* dictionary is returned
TraverseEnd ==
    /\ ret.op = "exploring"
    /\ ~MoreLevels(ret.level, ctrl.max_depth) \/ FrontierDone(ret.frontier)
    /\ ret' = [ret EXCEPT !.op = "explored"]
    /\ last' = [op |-> "explore", exc |-> "none", levels |-> <<>>, at |-> fsChanges]
    /\ UNCHANGED <<fs, fsChanges, ctrl, calls, arvore, item, probe, cache>>

\* the loop of filter_by_extension from the k-th child on; acc = [out, invalids]
RECURSIVE FilterFrom(_, _, _, _)
FilterFrom(childs, k, ext, acc0) ==
    Let(acc0, LAMBDA acc :
    IF k > Len(childs) THEN acc
    ELSE Let(childs[k], LAMBDA child : Let(Lower(child[Len(child)]), LAMBDA filename :
             IF StatRaises(child)
             THEN FilterFrom(childs, k + 1, ext,
                             [acc EXCEPT !.invalids = Append(@, child)])
             ELSE IF /\ IsFile(child)
                     /\ \/ StartsWith(filename, <<"f", "a", "v", "o", "r", "i", "t", "o", "s", "_">>)
                        \/ StartsWith(filename, <<"b", "o", "o", "k", "m", "a", "r", "k", "s">>)
                     /\ (ext = None \/ Lower(Suffix(child[Len(child)])) = ext)
             THEN FilterFrom(childs, k + 1, ext, [acc EXCEPT !.out = Append(@, child)])
             ELSE FilterFrom(childs, k + 1, ext, acc))))

ChildLists ==
    {<<Append(P_d, N_bm), Append(P_a, N_ih), P_a>>}

\* controller.filter_by_extension(childs, extension)
FilterByExtension(childs, extension) ==
    /\ ctrl.state = "ok"
    /\ calls < MaxCalls
    /\ \E res \in {FilterFrom(childs, 1, NormalizeExt(extension),
                                [out |-> <<>>, invalids |-> ctrl.invalids])} :
           /\ ctrl' = [ctrl EXCEPT !.invalids = res.invalids]
           /\ last' = [op |-> "filter", exc |-> "none", levels |-> <<>>, at |-> fsChanges]
    /\ calls' = calls + 1
    /\ UNCHANGED <<fs, fsChanges, arvore, item, probe, ret, cache>>

(***************************************************************************)
(* Other processes change the filesystem between the program's calls.      *)
(***************************************************************************)
\* the paths other processes touch: /r, /r/a and /r/r.H change mode, the
\* listing of /r/a/d fails, /r/a/i.h is removed
ChmodSites == {1, 2, 4}

IoErrorSites == {6}

RemoveSites == {7}

\* chmod: the read bit or the search bit of a file or directory is flipped
EnvChmod(i, bit) ==
    /\ fsChanges < MaxFsChanges
    /\ calls < MaxCalls
    /\ i \in ChmodSites
    /\ fs[i].kind = "file" => bit = "r"
    /\ fs' = IF bit = "r" THEN [fs EXCEPT ![i].r = ~@] ELSE [fs EXCEPT ![i].x = ~@]
    /\ fsChanges' = fsChanges + 1
    /\ UNCHANGED <<ctrl, calls, last, arvore, item, probe, ret, cache>>

\* a directory whose listing fails with an I/O error
EnvIoError(i) ==
    /\ fsChanges < MaxFsChanges
    /\ calls < MaxCalls
    /\ i \in IoErrorSites
    /\ ~fs[i].listErr
    /\ fs' = [fs EXCEPT ![i].listErr = TRUE]
    /\ fsChanges' = fsChanges + 1
    /\ UNCHANGED <<ctrl, calls, last, arvore, item, probe, ret, cache>>

\* unlink / rmdir -r: the entry i disappears from its directory
EnvRemove(i) ==
    /\ fsChanges < MaxFsChanges
    /\ calls < MaxCalls
    /\ i \in RemoveSites
    /\ \E d \in Inodes : InSeq(i, fs[d].entries)
    /\ fs' = [d \in Inodes |->
                [fs[d] EXCEPT !.entries = SelectSeq(@, LAMBDA e : e # i)]]
    /\ fsChanges' = fsChanges + 1
    /\ UNCHANGED <<ctrl, calls, last, arvore, item, probe, ret, cache>>

Env ==
    \/ \E i \in Inodes, bit \in {"r", "x"} : EnvChmod(i, bit)
    \/ \E i \in Inodes : EnvIoError(i)
    \/ \E i \in Inodes : EnvRemove(i)

(***************************************************************************)
(* FileSystemItem, File, Directory and FileSystemItemFactory               *)
(* (models/base_system.py), PathValidity (models/system_enums.py).         *)
(***************************************************************************)
PathValidity == {"valid", "invalid", "non_existent", "access_denied", "system"}

\* str(n) of a natural number, in decimal digits
DigitChar(d) ==
    CASE d = 0 -> "0" [] d = 1 -> "1" [] d = 2 -> "2" [] d = 3 -> "3" [] d = 4 -> "4"
      [] d = 5 -> "5" [] d = 6 -> "6" [] d = 7 -> "7" [] d = 8 -> "8" [] OTHER -> "9"

RECURSIVE Str(_)
Str(n) == IF n < 10 THEN <<DigitChar(n)>> ELSE Append(Str(n \div 10), DigitChar(n % 10))

\* the text of a validity reason
Reason(text) == [text |-> text, errno |-> "none", path |-> <<>>]

\* str(e) of an OSError
ErrText(errno, path) == [text |-> "OSError", errno |-> errno, path |-> path]

NoItem ==
    [kind |-> "none", path |-> <<>>, name |-> <<>>, validity |-> "valid",
     validity_reason |-> Reason(""), can_read |-> FALSE, can_write |-> FALSE,
     hidden |-> FALSE, item_count |-> 0, version |-> 1, change_history |-> <<>>]

\* File(...) and Directory(...) with the dataclass defaults
NewItem(kind, path) ==
    [NoItem EXCEPT !.kind = kind, !.path = path, !.name = path[Len(path)]]

\* a version written one too high
HistoryVersion_AfterIncrement(it) == Str(it.version + 1)

\* the version add_to_change_history writes into the record
HistoryVersion(it) == Str(it.version)

AddToChangeHistoryOf(it, change_type, details) ==
    [it EXCEPT
       !.change_history = Append(@, [timestamp |-> "now",
                                     version |-> HistoryVersion(it),
                                     type |-> change_type,
                                     details |-> <<"str", details>>]),
       !.version = @ + 1]

MarkAsInvalidOf(it, reason) ==
    [it EXCEPT !.validity = "invalid", !.validity_reason = reason]

MarkAsNonExistentOf(it) ==
    [it EXCEPT !.validity = "non_existent",
               !.validity_reason = Reason("Path does not exist")]

\* a mark that files the item under SYSTEM
MarkAsAccessDeniedOf_AsSystem(it) ==
    [it EXCEPT !.validity = "system", !.validity_reason = Reason("Access denied")]

MarkAsAccessDeniedOf(it) ==
    [it EXCEPT !.validity = "access_denied", !.validity_reason = Reason("Access denied")]

IsValid(it) == it.validity = "valid"

\* can_access without the denied state
CanAccess_ValidOnly(it) == it.validity \in {"valid"}

CanAccess(it) == it.validity \in {"valid", "access_denied"}

CreateNonexistentItem(path) ==
    IF Suffix(path[Len(path)]) # <<>> THEN NewItem("File", path)
    ELSE NewItem("Directory", path)

\* every exception handled as an invalid path
MoldHandler_AllInvalid(exc) == IF exc \in OSErrors THEN "invalid" ELSE "raise"

\* the except clause of moldar_objeto that takes an exception
MoldHandler(exc) ==
    IF exc = "PermissionError" THEN "access_denied"
    ELSE IF exc \in OSErrors THEN "invalid"
    ELSE "raise"

\* the try block of moldar_objeto: the item it returns or the exception raised
\* in it, with the errno and what the OS answered
MoldTry(path) ==
    Let(Stat(path), LAMBDA st :
        IF st.err = "EACCES"
        THEN [exc |-> "PermissionError", errno |-> "EACCES", item |-> NoItem,
              exists |-> "error"]
        ELSE IF st.err = "ENOENT"
        THEN [exc |-> "none", errno |-> "none",
              item |-> MarkAsNonExistentOf(CreateNonexistentItem(path)),
              exists |-> "no"]
        ELSE IF fs[st.ino].kind = "file"
        THEN [exc |-> "none", errno |-> "none",
              item |-> [NewItem("File", path) EXCEPT
                          !.can_read = AccessR(path), !.can_write = AccessW(path),
                          !.hidden = StartsWith(path[Len(path)], <<".">>)],
              exists |-> "yes"]
        ELSE IF ListError(path) = "PermissionError"
        THEN [exc |-> "PermissionError", errno |-> "EACCES", item |-> NoItem,
              exists |-> "yes"]
        ELSE IF ListError(path) # "none"
        THEN [exc |-> ListError(path),
              errno |-> IF ListError(path) = "NotADirectoryError" THEN "ENOTDIR" ELSE "EIO",
              item |-> NoItem, exists |-> "yes"]
        ELSE [exc |-> "none", errno |-> "none",
              item |-> [NewItem("Directory", path) EXCEPT
                          !.hidden = StartsWith(path[Len(path)], <<".">>),
                          !.item_count = Len(Listing(path))],
              exists |-> "yes"])

\* FileSystemItemFactory.moldar_objeto(path_str)
MoldarObjeto(path) ==
    Let(MoldTry(path), LAMBDA t :
        IF t.exc = "none" THEN [raised |-> "none", item |-> t.item, try |-> t]
        ELSE IF MoldHandler(t.exc) = "access_denied"
        THEN [raised |-> "none", try |-> t,
              item |-> MarkAsAccessDeniedOf(CreateNonexistentItem(path))]
        ELSE IF MoldHandler(t.exc) = "invalid"
        THEN [raised |-> "none", try |-> t,
              item |-> MarkAsInvalidOf(CreateNonexistentItem(path),
                                       ErrText(t.errno, path))]
        ELSE [raised |-> t.exc, try |-> t, item |-> NoItem])

MoldPaths ==
    {P_r, P_a, P_d, P_hc, Append(P_r, N_rH), Append(P_a, N_ih), Append(P_d, N_l), P_zz, P_zt}

ChangeTypes == {"rename", "chmod"}

NoProbe == [op |-> "none", raised |-> "none", exc |-> "none", exists |-> "no", at |-> 0]

\* item = FileSystemItemFactory.moldar_objeto(path)
Mold(path) ==
    /\ item.kind = "none"
    /\ \E res \in {MoldarObjeto(path)} :
          /\ item' = res.item
          /\ probe' = [op |-> "mold", raised |-> res.raised, exc |-> res.try.exc,
                       exists |-> res.try.exists, at |-> fsChanges]
    /\ UNCHANGED <<fs, fsChanges, ctrl, calls, last, arvore, ret, cache>>

\* item = File(path=..., validity=v) or Directory(path=..., validity=v)
ConstructItem(kind, path, v) ==
    /\ item.kind = "none"
    /\ item' = [NewItem(kind, path) EXCEPT !.validity = v]
    /\ probe' = [NoProbe EXCEPT !.op = "new", !.at = fsChanges]
    /\ UNCHANGED <<fs, fsChanges, ctrl, calls, last, arvore, ret, cache>>

\* item.mark_as_invalid(reason)
MarkAsInvalid(reason) ==
    /\ item.kind # "none"
    /\ item' = MarkAsInvalidOf(item, reason)
    /\ probe' = [probe EXCEPT !.op = "mark"]
    /\ UNCHANGED <<fs, fsChanges, ctrl, calls, last, arvore, ret, cache>>

\* item.mark_as_non_existent()
MarkAsNonExistent ==
    /\ item.kind # "none"
    /\ item' = MarkAsNonExistentOf(item)
    /\ probe' = [probe EXCEPT !.op = "mark"]
    /\ UNCHANGED <<fs, fsChanges, ctrl, calls, last, arvore, ret, cache>>

\* item.mark_as_access_denied()
MarkAsAccessDenied ==
    /\ item.kind # "none"
    /\ item' = MarkAsAccessDeniedOf(item)
    /\ probe' = [probe EXCEPT !.op = "mark"]
    /\ UNCHANGED <<fs, fsChanges, ctrl, calls, last, arvore, ret, cache>>

\* item.add_to_change_history(change_type, details)
AddToChangeHistory(change_type, details) ==
    /\ item.kind # "none"
    /\ Len(item.change_history) < MaxHistory
    /\ item' = AddToChangeHistoryOf(item, change_type, details)
    /\ probe' = [probe EXCEPT !.op = "history"]
    /\ UNCHANGED <<fs, fsChanges, ctrl, calls, last, arvore, ret, cache>>

(***************************************************************************)
(* folder_method_montar_arvore (utils/folders_tools.py) and the path       *)
(* validator it calls (utils/global_tools.py).                             *)
(***************************************************************************)
\* the directory that holds inode i
ParentOf(i) ==
    CHOOSE j \in Inodes : fs[j].kind = "dir" /\ InSeq(i, fs[j].entries)

\* the path without links that leads to inode i
RECURSIVE CanonOf(_)
CanonOf(i) == IF i = 0 THEN <<N_anchor>> ELSE Append(CanonOf(ParentOf(i)), fs[i].name)

\* Path.resolve(): links are replaced by their targets; a path that cannot be
\* walked is left as it is
Resolve(path) ==
    Let(Stat(path), LAMBDA st : IF st.err = "ok" THEN CanonOf(st.ino) ELSE path)

\* check_valid_path(caminho_generico): the resolved path, or the exception
CheckValidPath(caminho_generico) ==
    Let(Resolve(caminho_generico), LAMBDA caminho :
        IF StatRaises(caminho) THEN [exc |-> "PermissionError", path |-> caminho]
        ELSE IF ~Exists(caminho) THEN [exc |-> "FileNotFoundError", path |-> caminho]
        ELSE IF ~AccessR(caminho) THEN [exc |-> "PermissionError", path |-> caminho]
        ELSE [exc |-> "none", path |-> caminho])

\* str(path)
RECURSIVE PathStr(_)
PathStr(path) ==
    IF Len(path) = 1 THEN path[1]
    ELSE IF Len(path) = 2 THEN path[1] \o path[2]
    ELSE PathStr(SubSeq(path, 1, Len(path) - 1)) \o <<"/">> \o path[Len(path)]

\* Path.name: empty for the anchor
NameOf(path) == IF Len(path) = 1 THEN <<>> ELSE path[Len(path)]

NoTree == [name |-> <<>>, type |-> "none", children |-> <<>>]

FolderNode(name, children) == [name |-> name, type |-> "folder", children |-> children]

FileNode(name) == [name |-> name, type |-> "file", children |-> <<>>]

PermissionDeniedNode(path) ==
    [name |-> <<"P", "E", "R", "M", "I", "S", "S", "I", "O", "N", "_",
                "D", "E", "N", "I", "E", "D", " ", "(">> \o PathStr(path) \o <<")">>,
     type |-> "error", children |-> <<>>]

\* a visit that is not counted
Visited_NotCounted(contador) == contador

\* _contador[0] += 1
Visited(contador) == contador + 1

\* a limit that lets one folder too many through
CutOff_CounterExclusive(nivel_atual, profundidade_maxima, contador, limite_pastas) ==
    nivel_atual > profundidade_maxima \/ contador > limite_pastas

\* the test that cuts a folder off: depth exceeded or counter at the limit
CutOff(nivel_atual, profundidade_maxima, contador, limite_pastas) ==
    nivel_atual > profundidade_maxima \/ contador >= limite_pastas

\* the exceptions the try block of folder_method_montar_arvore absorbs
MontarCaught == {"PermissionError"}

\* folder_method_montar_arvore and the loop over iterdir() from the k-th item
\* on; both answer [exc, tree, cnt], cnt being the shared _contador[0]
RECURSIVE MontarArvore(_, _, _, _, _), MontarFilhos(_, _, _, _, _, _, _, _)
MontarArvore(pasta_base, profundidade_maxima, limite_pastas, nivel_atual, contador) ==
    Let(CheckValidPath(pasta_base), LAMBDA v :
        IF v.exc # "none" THEN [exc |-> v.exc, tree |-> NoTree, cnt |-> contador]
        ELSE IF CutOff(nivel_atual, profundidade_maxima, contador, limite_pastas)
        THEN [exc |-> "none", tree |-> FolderNode(NameOf(v.path), <<>>), cnt |-> contador]
        ELSE Let(ListError(v.path), LAMBDA le :
                 IF le \in MontarCaught
                 THEN [exc |-> "none", cnt |-> Visited(contador),
                       tree |-> FolderNode(NameOf(v.path), <<PermissionDeniedNode(v.path)>>)]
                 ELSE IF le # "none"
                 THEN [exc |-> le, tree |-> NoTree, cnt |-> Visited(contador)]
                 ELSE MontarFilhos(v.path, Listing(v.path), 1, <<>>, profundidade_maxima,
                                   limite_pastas, nivel_atual, Visited(contador))))

MontarFilhos(pasta, itens, k, childs0, profundidade_maxima, limite_pastas, nivel_atual, contador) ==
    Let(childs0, LAMBDA childs :
    IF k > Len(itens)
    THEN [exc |-> "none", tree |-> FolderNode(NameOf(pasta), childs), cnt |-> contador]
    ELSE IF StatRaises(itens[k])
    THEN [exc |-> "none", cnt |-> contador,
          tree |-> FolderNode(NameOf(pasta), Append(childs, PermissionDeniedNode(pasta)))]
    ELSE IF IsDir(itens[k])
    THEN Let(MontarArvore(itens[k], profundidade_maxima, limite_pastas, nivel_atual + 1,
                          contador),
             LAMBDA sub :
             IF sub.exc \in MontarCaught
             THEN [exc |-> "none", cnt |-> sub.cnt,
                   tree |-> FolderNode(NameOf(pasta),
                                       Append(childs, PermissionDeniedNode(pasta)))]
             ELSE IF sub.exc # "none"
             THEN [exc |-> sub.exc, tree |-> NoTree, cnt |-> sub.cnt]
             ELSE MontarFilhos(pasta, itens, k + 1, Append(childs, sub.tree),
                               profundidade_maxima, limite_pastas, nivel_atual, sub.cnt))
    ELSE MontarFilhos(pasta, itens, k + 1, Append(childs, FileNode(NameOf(itens[k]))),
                      profundidade_maxima, limite_pastas, nivel_atual, contador))

\* a shallow and a deep limit
DepthArgs == {0, MaxDepthArg}

TreeBases == {P_r, P_a, Append(P_d, N_l), P_nt, P_zz}

NoArvore ==
    [status |-> "none", exc |-> "none", tree |-> NoTree, cnt |-> 0, base |-> <<>>,
     profundidade_maxima |-> 0, limite_pastas |-> 0, at |-> 0]

\* arvore = folder_method_montar_arvore(pasta_base, profundidade_maxima, limite_pastas)
BuildTree(pasta_base, profundidade_maxima, limite_pastas) ==
    /\ calls < MaxCalls
    /\ calls' = calls + 1
    /\ \E res \in {MontarArvore(pasta_base, profundidade_maxima, limite_pastas, 0, 0)} :
          arvore' = [status |-> IF res.exc = "none" THEN "ok" ELSE "raised",
                     exc |-> res.exc, tree |-> res.tree, cnt |-> res.cnt,
                     base |-> pasta_base, profundidade_maxima |-> profundidade_maxima,
                     limite_pastas |-> limite_pastas, at |-> fsChanges]
    /\ UNCHANGED <<fs, fsChanges, ctrl, last, item, probe, ret, cache>>

(***************************************************************************)
(* Text files: ler_conteudo_texto and escrever_conteudo_texto              *)
(* (utils/file_tools.py), validar_caminho (utils/main_tools.py).           *)
(***************************************************************************)
\* text is a sequence of characters; "CR" and "LF" stand for \r and \n
Encodings == {"utf-8", "latin-1"}

\* the printable ASCII characters, in code order from 32 to 126 ("DQ", "BS"
\* and "BT" stand for the double quote, the backslash and the backtick)
AsciiTable ==
    <<
      " ", "!", "DQ", "#", "$", "%", "&", "'", "(", ")", "*", "+", ",", "-", ".", "/",
      "0", "1", "2", "3", "4", "5", "6", "7", "8", "9", ":", ";", "<", "=", ">", "?",
      "@", "A", "B", "C", "D", "E", "F", "G", "H", "I", "J", "K", "L", "M", "N", "O",
      "P", "Q", "R", "S", "T", "U", "V", "W", "X", "Y", "Z", "[", "BS", "]", "^", "_",
      "BT", "a", "b", "c", "d", "e", "f", "g", "h", "i", "j", "k", "l", "m", "n", "o",
      "p", "q", "r", "s", "t", "u", "v", "w", "x", "y", "z", "{", "|", "}", "~"
    >>

IsAscii(c) == \E i \in 1..Len(AsciiTable) : AsciiTable[i] = c

\* ord(c) of a printable ASCII character
Ord(c) == 31 + (CHOOSE i \in 1..Len(AsciiTable) : AsciiTable[i] = c)

\* the characters of a string literal
RECURSIVE Join(_, _)
Join(parts, sep) ==
    IF parts = <<>> THEN <<>>
    ELSE IF Len(parts) = 1 THEN parts[1]
    ELSE parts[1] \o sep \o Join(Tail(parts), sep)

\* str.encode: the bytes of one character
EncodeChar(c, enc) ==
    CASE IsAscii(c) -> <<Ord(c)>>
      [] c = "CR" -> <<13>> [] c = "LF" -> <<10>>
      [] c = "é" -> IF enc = "utf-8" THEN <<195, 169>> ELSE <<233>>
      [] c = "Ã" -> IF enc = "utf-8" THEN <<195, 131>> ELSE <<195>>
      [] c = "©" -> IF enc = "utf-8" THEN <<194, 169>> ELSE <<169>>
      [] OTHER -> IF enc = "utf-8" THEN <<195, 191>> ELSE <<255>>

\* the positions of a sequence
Indexes(s) == [k \in 1..Len(s) |-> k]

\* the concatenation of a sequence of sequences
RECURSIVE Flatten(_)
Flatten(ss) ==
    IF Len(ss) = 0 THEN <<>>
    ELSE IF Len(ss) = 1 THEN ss[1]
    ELSE Flatten(SubSeq(ss, 1, Len(ss) \div 2)) \o Flatten(SubSeq(ss, Len(ss) \div 2 + 1, Len(ss)))

Encode(text, enc) == Flatten([k \in 1..Len(text) |-> EncodeChar(text[k], enc)])

\* the character of a code point below 256
CharOf(b) ==
    CASE b \in 32..126 -> AsciiTable[b - 31] [] b = 13 -> "CR" [] b = 10 -> "LF"
      [] b = 233 -> "é" [] b = 195 -> "Ã" [] b = 169 -> "©" [] b = 255 -> "ÿ"
      [] OTHER -> "?"

\* UTF-8 as far as two-byte sequences: a lead byte and a continuation byte
IsLead(b) == b \in {194, 195}

IsCont(b) == b \in 128..191

\* bytes.decode: [exc, text]; a byte sequence that is not valid raises
Decode(bytes, enc) ==
    IF enc = "latin-1"
    THEN [exc |-> "none", text |-> [k \in 1..Len(bytes) |-> CharOf(bytes[k])]]
    ELSE IF \E k \in 1..Len(bytes) :
               \/ bytes[k] >= 128 /\ ~IsLead(bytes[k]) /\ ~IsCont(bytes[k])
               \/ IsLead(bytes[k]) /\ (k = Len(bytes) \/ ~IsCont(bytes[k + 1]))
               \/ IsCont(bytes[k]) /\ (k = 1 \/ ~IsLead(bytes[k - 1]))
    THEN [exc |-> "UnicodeDecodeError", text |-> <<>>]
    ELSE Let(SelectSeq(Indexes(bytes), LAMBDA k : ~IsCont(bytes[k])), LAMBDA starts :
             [exc |-> "none",
              text |-> [j \in 1..Len(starts) |->
                          IF IsLead(bytes[starts[j]])
                          THEN CharOf((bytes[starts[j]] - 192) * 64 + bytes[starts[j] + 1] - 128)
                          ELSE CharOf(bytes[starts[j]])]])

\* os.linesep
LineSep == <<"LF">>

\* text mode, newline=None, on writing: every \n becomes os.linesep
TranslateOut(text) ==
    Flatten([k \in 1..Len(text) |-> IF text[k] = "LF" THEN LineSep ELSE <<text[k]>>])

\* text mode, newline=None, on reading: \r\n and \r become \n
TranslateIn(text) ==
    Let(SelectSeq(Indexes(text),
                  LAMBDA k : ~(text[k] = "LF" /\ k > 1 /\ text[k - 1] = "CR")),
        LAMBDA kept :
        [j \in 1..Len(kept) |-> IF text[kept[j]] = "CR" THEN "LF" ELSE text[kept[j]]])

\* the newline handling of p.open("r", encoding=encoding)
ReadNewlines(text) == TranslateIn(text)

Parent(path) == SubSeq(path, 1, Len(path) - 1)

FreeInode == CHOOSE i \in Inodes : fs[i].kind = "free"

\* open(path, "w"): [exc, fs]; the file is created in its directory or
\* truncated, and bytes become its content
OpenWrite(path, bytes) ==
    Let(Stat(path), LAMBDA st :
        IF st.err = "EACCES" THEN [exc |-> "PermissionError", fs |-> fs]
        ELSE IF st.err = "ok"
        THEN IF fs[st.ino].kind = "dir" THEN [exc |-> "IsADirectoryError", fs |-> fs]
             ELSE IF ~fs[st.ino].w THEN [exc |-> "PermissionError", fs |-> fs]
             ELSE [exc |-> "none", fs |-> [fs EXCEPT ![st.ino].content = bytes]]
        ELSE Let(Stat(Parent(path)), LAMBDA dir :
                 IF dir.err # "ok" THEN [exc |-> "FileNotFoundError", fs |-> fs]
                 ELSE IF fs[dir.ino].kind # "dir"
                 THEN [exc |-> "NotADirectoryError", fs |-> fs]
                 ELSE IF ~fs[dir.ino].w \/ ~fs[dir.ino].x
                 THEN [exc |-> "PermissionError", fs |-> fs]
                 ELSE [exc |-> "none",
                       fs |-> [fs EXCEPT
                                 ![FreeInode] = [Node("file", path[Len(path)], <<>>, NoInode)
                                                   EXCEPT !.content = bytes],
                                 ![dir.ino].entries = Append(@, FreeInode)]]))

\* open(path, "r") and read(): [exc, bytes]
OpenRead(path) ==
    Let(Stat(path), LAMBDA st :
        IF st.err = "EACCES" THEN [exc |-> "PermissionError", bytes |-> <<>>]
        ELSE IF st.err = "ENOENT" THEN [exc |-> "FileNotFoundError", bytes |-> <<>>]
        ELSE IF fs[st.ino].kind = "dir" THEN [exc |-> "IsADirectoryError", bytes |-> <<>>]
        ELSE IF ~fs[st.ino].r THEN [exc |-> "PermissionError", bytes |-> <<>>]
        ELSE IF fs[st.ino].listErr THEN [exc |-> "OSError", bytes |-> <<>>]
        ELSE [exc |-> "none", bytes |-> fs[st.ino].content])

\* validar_caminho(caminho_comum): the exception it raises, or "none"
ValidarCaminho(caminho_comum) ==
    Let(Resolve(caminho_comum), LAMBDA caminho_abs :
        IF StatRaises(caminho_abs) THEN "PermissionError"
        ELSE IF ~Exists(caminho_abs) THEN "FileNotFoundError"
        ELSE "none")

\* a read that opens whatever the path names
NotAFile_Unchecked(p) == FALSE

\* the test of ler_conteudo_texto that refuses what is not a regular file
NotAFile(p) == ~IsFile(p)

\* ler_conteudo_texto(caminho_comum, encoding): [exc, text]
LerConteudoTexto(caminho_comum, encoding) ==
    IF ValidarCaminho(caminho_comum) # "none"
    THEN [exc |-> ValidarCaminho(caminho_comum), text |-> <<>>]
    ELSE IF NotAFile(caminho_comum) THEN [exc |-> "FileNotFoundError", text |-> <<>>]
    ELSE Let(OpenRead(caminho_comum), LAMBDA f :
             IF f.exc # "none" THEN [exc |-> f.exc, text |-> <<>>]
             ELSE Let(Decode(f.bytes, encoding), LAMBDA d :
                      IF d.exc # "none" THEN d
                      ELSE [exc |-> "none", text |-> ReadNewlines(d.text)]))

\* escrever_conteudo_texto(caminho_comum, conteudo, encoding): [exc, fs]
EscreverConteudoTexto(caminho_comum, conteudo, encoding) ==
    OpenWrite(caminho_comum, Encode(TranslateOut(conteudo), encoding))

Texts == {<<>>, <<"a", "b">>, <<"é">>, <<"a", "CR", "LF", "b">>}

\* an existing file, a file to create, a directory, a path under a missing
\* directory and a file that is not valid UTF-8
ReadArgs ==
    ({P_nt} \X Encodings)
      \cup ({Append(P_r, N_zt), P_a, Append(P_zz, N_zt), Append(P_a, N_ih)} \X {"utf-8"})

WriteArgs ==
    ({P_nt} \X Texts \X {"utf-8"})
      \cup {<<P_nt, <<"é">>, "latin-1">>, <<Append(P_r, N_zt), <<"a", "b">>, "utf-8">>,
             <<P_a, <<"a", "b">>, "utf-8">>}

\* text = ler_conteudo_texto(path, enc)
ReadText(path, enc) ==
    /\ calls < MaxCalls
    /\ calls' = calls + 1
    /\ \E res \in {LerConteudoTexto(path, enc)} :
          ret' = [ret EXCEPT !.op = "read", !.exc = res.exc, !.at = fsChanges,
                             !.path = path, !.enc = enc, !.result = res.text]
    /\ UNCHANGED <<fs, fsChanges, ctrl, last, arvore, item, probe, cache>>

\* escrever_conteudo_texto(path, conteudo, enc)
WriteText(path, conteudo, enc) ==
    /\ calls < MaxCalls
    /\ Exists(path) \/ \E i \in Inodes : fs[i].kind = "free"
    /\ calls' = calls + 1
    /\ \E res \in {EscreverConteudoTexto(path, conteudo, enc)} :
          /\ fs' = res.fs
          /\ ret' = IF res.exc = "none"
                    THEN [ret EXCEPT !.op = "write", !.exc = "none", !.at = fsChanges,
                                     !.path = path, !.enc = enc, !.result = <<>>,
                                     !.wpath = path, !.wenc = enc, !.wtext = conteudo,
                                     !.wat = fsChanges]
                    ELSE [ret EXCEPT !.op = "write", !.exc = res.exc, !.at = fsChanges,
                                     !.path = path, !.enc = enc, !.result = <<>>]
    /\ UNCHANGED <<fsChanges, ctrl, last, arvore, item, probe, cache>>

(***************************************************************************)
(* exportar_csv (views/system_view.py).                                    *)
(***************************************************************************)
CsvHeader ==
    <<"t", "i", "p", "o", ",", "n", "o", "m", "e", ",", "c", "a", "m", "i", "n", "h", "o">>

PastaRow(pasta) ==
    <<"P", "A", "S", "T", "A", ",">> \o NameOf(pasta) \o <<",">> \o PathStr(pasta)

ArquivoRow(arquivo) ==
    <<"A", "R", "Q", "U", "I", "V", "O", ",">> \o NameOf(arquivo) \o <<",">> \o PathStr(arquivo)

\* the files written before the folders
CsvRows_FilesFirst(filhos_pastas, filhos_arquivos) ==
    [k \in 1..Len(filhos_arquivos) |-> ArquivoRow(filhos_arquivos[k])]
      \o [k \in 1..Len(filhos_pastas) |-> PastaRow(filhos_pastas[k])]

\* the lines the two loops append after the header
CsvRows(filhos_pastas, filhos_arquivos) ==
    [k \in 1..Len(filhos_pastas) |-> PastaRow(filhos_pastas[k])]
      \o [k \in 1..Len(filhos_arquivos) |-> ArquivoRow(filhos_arquivos[k])]

\* "\n".join(linhas)
CsvText(filhos_pastas, filhos_arquivos) ==
    Join(<<CsvHeader>> \o CsvRows(filhos_pastas, filhos_arquivos), <<"LF">>)

\* folders, files and destination: an existing file, a new one, a directory
CsvArgs ==
    {<<<<P_d, P_a>>, <<P_nt>>, Append(P_d, N_bm)>>,
     <<<<P_a>>, <<Append(P_a, N_ih), P_nt>>, Append(P_d, N_bm)>>,
     <<<<>>, <<>>, Append(P_r, N_zt)>>,
     <<<<P_a>>, <<>>, P_a>>}

\* exportar_csv(filhos_pastas, filhos_arquivos, destino)
ExportarCsv(filhos_pastas, filhos_arquivos, destino) ==
    /\ calls < MaxCalls
    /\ Exists(destino) \/ \E i \in Inodes : fs[i].kind = "free"
    /\ calls' = calls + 1
    /\ \E text \in {CsvText(filhos_pastas, filhos_arquivos)} :
       \E res \in {OpenWrite(destino, Encode(TranslateOut(text), "utf-8"))} :
          /\ fs' = res.fs
          /\ ret' = IF res.exc = "none"
                    THEN [ret EXCEPT !.op = "csv", !.exc = "none", !.at = fsChanges,
                                     !.path = destino, !.enc = "utf-8",
                                     !.result = <<filhos_pastas, filhos_arquivos>>,
                                     !.wpath = destino, !.wenc = "utf-8", !.wtext = text,
                                     !.wat = fsChanges]
                    ELSE [ret EXCEPT !.op = "csv", !.exc = res.exc, !.at = fsChanges,
                                     !.path = destino, !.enc = "utf-8",
                                     !.result = <<filhos_pastas, filhos_arquivos>>]
    /\ UNCHANGED <<fsChanges, ctrl, last, arvore, item, probe, cache>>

(***************************************************************************)
(* ColetorDeMetadados (utils/system_path_info.py) and the cross-field      *)
(* validator of ModeladorDeItens (models/item_model.py).                   *)
(***************************************************************************)
\* Python values whose kind the code tests: None, an int, a str, a dict
PyNone == [kind |-> "None", value |-> <<>>]

PyInt(n) == [kind |-> "int", value |-> <<n>>]

\* hashlib.<alg>(bytes).hexdigest(): a string that is a function of the bytes
HexDigest(alg, bytes) == [kind |-> "str", value |-> <<alg, bytes>>]

\* the pair (0, 0) that _calcular_hash returns when it gives up
ZeroPair == <<PyInt(0), PyInt(0)>>

\* the pair (sha256.hexdigest(), md5.hexdigest()) of the bytes read
Digests(bytes) == <<HexDigest("sha256", bytes), HexDigest("md5", bytes)>>

\* cache_key = f"hash_{caminho}"
CacheKey(caminho) == <<"hash_">> \o caminho

\* a lookup that never finds the key
Cached_Never(caminho) == {}

\* the entries of _CACHE under the key of caminho
Cached(caminho) == {e \in cache : e.key = CacheKey(caminho)}

\* the exceptions the try block of _calcular_hash absorbs
HashCaught == {"ValueError"}

\* _calcular_hash(caminho): [exc, result, cache, read]; read tells whether the
\* file was opened
CalcularHash(caminho) ==
    IF StatRaises(caminho)
    THEN [exc |-> "PermissionError", result |-> ZeroPair, cache |-> cache, read |-> FALSE]
    ELSE IF ~IsFile(caminho)
    THEN [exc |-> "none", result |-> ZeroPair, cache |-> cache, read |-> FALSE]
    ELSE IF Cached(caminho) # {}
    THEN [exc |-> "none", result |-> (CHOOSE e \in Cached(caminho) : TRUE).value,
          cache |-> cache, read |-> FALSE]
    ELSE Let(OpenRead(caminho), LAMBDA f :
             IF f.exc = "none"
             THEN [exc |-> "none", result |-> Digests(f.bytes),
                   cache |-> cache \cup {[key |-> CacheKey(caminho),
                                          value |-> Digests(f.bytes)]},
                   read |-> TRUE]
             ELSE IF f.exc \in HashCaught
             THEN [exc |-> "none", result |-> ZeroPair, cache |-> cache, read |-> TRUE]
             ELSE [exc |-> f.exc, result |-> ZeroPair, cache |-> cache, read |-> TRUE])

\* _normalizar_caminho(caminho)
NormalizarCaminho(caminho) == Resolve(caminho)

\* _determinar_tipo(caminho): [exc, tipo]
DeterminarTipo(caminho) ==
    IF StatRaises(caminho) THEN [exc |-> "PermissionError", tipo |-> "none"]
    ELSE IF IsFile(caminho) THEN [exc |-> "none", tipo |-> "ARQUIVO"]
    ELSE IF IsDir(caminho) THEN [exc |-> "none", tipo |-> "PASTA"]
    ELSE IF LStatRaises(caminho) THEN [exc |-> "PermissionError", tipo |-> "none"]
    ELSE IF IsSymlink(caminho) THEN [exc |-> "none", tipo |-> "LINK"]
    ELSE [exc |-> "none", tipo |-> "DESCONHECIDO"]

\* os.walk(top): the directories it yields as root, top-down; a directory
\* whose listing fails is not yielded, a link to a directory is not entered
RECURSIVE WalkRoots(_)
WalkRoots(top) ==
    IF ListError(top) # "none" THEN <<>>
    ELSE Let(Listing(top), LAMBDA lst :
             <<top>> \o Flatten([k \in 1..Len(lst) |->
                                   IF IsDir(lst[k]) /\ ~IsSymlink(lst[k])
                                   THEN WalkRoots(lst[k]) ELSE <<>>]))

\* s.count(os.path.sep)
CountSep(s) == Cardinality({k \in 1..Len(s) : s[k] = "/"})

\* root[len(caminho_str) + len(os.path.sep):].count(os.path.sep)
WalkDepth(root, caminho) ==
    Let(PathStr(root), LAMBDA s :
        CountSep(SubSeq(s, Len(PathStr(caminho)) + 2, Len(s))))

\* the loop of _calcular_profundidade from the k-th root on
RECURSIVE ProfundidadeFrom(_, _, _, _)
ProfundidadeFrom(roots, k, caminho, max_depth0) ==
    Let(max_depth0, LAMBDA max_depth :
    IF k > Len(roots) THEN max_depth
    ELSE Let(WalkDepth(roots[k], caminho), LAMBDA depth :
             ProfundidadeFrom(roots, k + 1, caminho,
                              IF max_depth = Max(max_depth, depth) THEN depth
                              ELSE max_depth)))

\* _calcular_profundidade(caminho)
CalcularProfundidade(caminho) == ProfundidadeFrom(WalkRoots(caminho), 1, caminho, 0)

\* _listar_conteudo_aprimorado(caminho): [exc, conteudo]; an entry whose stat
\* raises is left out
ListarConteudoAprimorado(caminho) ==
    IF ListError(caminho) # "none" THEN [exc |-> ListError(caminho), conteudo |-> PyNone]
    ELSE Let(SelectSeq(Listing(caminho), LAMBDA it : Stat(it).err = "ok"), LAMBDA its :
             [exc |-> "none",
              conteudo |->
                [kind |-> "dict",
                 value |-> <<[k \in 1..Len(SelectSeq(its, IsFile)) |->
                                NameOf(SelectSeq(its, IsFile)[k])],
                             [k \in 1..Len(SelectSeq(its, IsDir)) |->
                                NameOf(SelectSeq(its, IsDir)[k])]>>]])

NoDoc ==
    [tipo |-> "none", nome |-> <<>>, profundidade |-> PyNone, conteudo |-> PyNone,
     hash_sha256 |-> PyNone, hash_md5 |-> PyNone]

\* coletar_aprimorado(caminho): [exc, doc, cache]; doc carries the fields the
\* validator reads (sizes, dates, owner and permissions are left out: they
\* are computed from the stat already taken and change no state)
ColetarAprimorado(caminho_dado) ==
    Let(NormalizarCaminho(caminho_dado), LAMBDA caminho :
    Let(DeterminarTipo(caminho), LAMBDA t :
        IF t.exc # "none" THEN [exc |-> t.exc, doc |-> NoDoc, cache |-> cache]
        ELSE IF Stat(caminho).err # "ok"
        THEN [exc |-> "FileNotFoundError", doc |-> NoDoc, cache |-> cache]
        ELSE Let(IF t.tipo = "ARQUIVO" THEN 0 ELSE CalcularProfundidade(caminho),
                 LAMBDA profundidade :
             Let(IF t.tipo = "ARQUIVO" THEN CalcularHash(caminho)
                 ELSE [exc |-> "none", result |-> <<PyNone, PyNone>>, cache |-> cache,
                       read |-> FALSE],
                 LAMBDA h :
                 IF h.exc # "none" THEN [exc |-> h.exc, doc |-> NoDoc, cache |-> h.cache]
                 ELSE Let(IF t.tipo = "PASTA" THEN ListarConteudoAprimorado(caminho)
                          ELSE [exc |-> "none", conteudo |-> PyNone],
                          LAMBDA c :
                          IF c.exc # "none"
                          THEN [exc |-> c.exc, doc |-> NoDoc, cache |-> h.cache]
                          ELSE [exc |-> "none",
                                doc |-> [tipo |-> t.tipo, nome |-> NameOf(caminho),
                                         profundidade |-> PyInt(profundidade),
                                         conteudo |-> c.conteudo,
                                         hash_sha256 |-> h.result[1],
                                         hash_md5 |-> h.result[2]],
                                cache |-> h.cache])))))

\* ModeladorDeItens.validar_estrutura(data): the exception it raises, or "none"
ValidarEstrutura(data) ==
    IF data.tipo = "PASTA"
    THEN IF data.conteudo.kind = "None" THEN "ValueError"
         ELSE IF data.profundidade.kind = "None" THEN "ValueError"
         ELSE "none"
    ELSE IF data.tipo = "ARQUIVO"
    THEN IF data.conteudo.kind # "None" THEN "ValueError"
         ELSE IF data.profundidade.kind # "None" THEN "ValueError"
         ELSE IF data.hash_sha256.kind = "None" THEN "ValueError"
         ELSE IF data.hash_md5.kind = "None" THEN "ValueError"
         ELSE "none"
    ELSE "none"

\* a file, a file that turns unreadable, a file that is removed, a directory
\* and a path that does not exist
HashPaths == {P_nt, Append(P_r, N_rH), Append(P_a, N_ih), P_a, P_zz}

\* the paths documents are collected for: the same, and the directory /r,
\* which has directories two levels down
CollectPaths == HashPaths \cup {P_r}

\* sha256, md5 = ColetorDeMetadados._calcular_hash(path)
Hash(path) ==
    /\ calls < MaxCalls
    /\ calls' = calls + 1
    /\ \E res \in {CalcularHash(path)} :
          /\ cache' = res.cache
          /\ ret' = [op |-> "hash", exc |-> res.exc, at |-> fsChanges, path |-> path,
                     result |-> res.result, read |-> res.read, doc |-> NoDoc]
    /\ UNCHANGED <<fs, fsChanges, ctrl, last, arvore, item, probe>>

\* doc = ColetorDeMetadados.coletar_aprimorado(path)
Collect(path) ==
    /\ calls < MaxCalls
    /\ calls' = calls + 1
    /\ \E res \in {ColetarAprimorado(path)} :
          /\ cache' = res.cache
          /\ ret' = [op |-> "collect", exc |-> res.exc, at |-> fsChanges, path |-> path,
                     result |-> <<res.doc.hash_sha256, res.doc.hash_md5>>, read |-> FALSE,
                     doc |-> res.doc]
    /\ UNCHANGED <<fs, fsChanges, ctrl, last, arvore, item, probe>>

\* the files other processes rewrite, and the file whose reading fails
RewriteSites == {5, 7}

ReadErrorSites == {5}

\* another process appends a byte to a file
EnvRewrite(i) ==
    /\ fsChanges < MaxFsChanges
    /\ calls < MaxCalls
    /\ i \in RewriteSites
    /\ fs[i].kind = "file"
    /\ fs' = [fs EXCEPT ![i].content = Append(@, 120)]
    /\ fsChanges' = fsChanges + 1
    /\ UNCHANGED <<ctrl, calls, last, arvore, item, probe, ret, cache>>

\* a file whose reading fails with an I/O error
EnvReadError(i) ==
    /\ fsChanges < MaxFsChanges
    /\ calls < MaxCalls
    /\ i \in ReadErrorSites
    /\ ~fs[i].listErr
    /\ fs' = [fs EXCEPT ![i].listErr = TRUE]
    /\ fsChanges' = fsChanges + 1
    /\ UNCHANGED <<ctrl, calls, last, arvore, item, probe, ret, cache>>

(***************************************************************************)
(* buscar_por_extensao (utils/folder_tools.py) and obter_tamanho           *)
(* (utils/main_tools.py).                                                  *)
(***************************************************************************)
\* str.split("."): the pieces between the dots
RECURSIVE SplitDot(_)
SplitDot(s) ==
    Let({k \in 1..Len(s) : s[k] = "."}, LAMBDA dots :
        IF dots = {} THEN <<s>>
        ELSE Let(CHOOSE k \in dots : \A j \in dots : k <= j, LAMBDA k :
                 <<SubSeq(s, 1, k - 1)>> \o SplitDot(SubSeq(s, k + 1, Len(s)))))

\* Path.suffixes: none for a name that ends with a dot; the leading dots of
\* the name do not start a suffix
Suffixes(name) ==
    IF name = <<>> \/ EndsWith(name, <<".">>) THEN <<>>
    ELSE Let(SplitDot(LStrip(name, ".")), LAMBDA pieces :
             [k \in 1..(Len(pieces) - 1) |-> <<".">> \o pieces[k + 1]])

\* only the last suffix of the name is compared
SuffixesLower_LastOnly(arquivo) ==
    Let(Suffixes(NameOf(arquivo)), LAMBDA sufs :
        IF sufs = <<>> THEN <<>> ELSE <<LStrip(Lower(sufs[Len(sufs)]), ".")>>)

\* [suf.lower().lstrip(".") for suf in arquivo.suffixes]
SuffixesLower(arquivo) ==
    Let(Suffixes(NameOf(arquivo)), LAMBDA sufs :
        [k \in 1..Len(sufs) |-> LStrip(Lower(sufs[k]), ".")])

\* lst[-n:]: the whole list when n is 0 or exceeds its length
LastN(lst, n) ==
    IF n = 0 \/ n >= Len(lst) THEN lst ELSE SubSeq(lst, Len(lst) - n + 1, Len(lst))

\* ext_list: extensao.lower().split("."), without a first empty piece
ExtList(extensao) ==
    Let(SplitDot(Lower(extensao)), LAMBDA ext_list :
        IF ext_list[1] = <<>> THEN SubSeq(ext_list, 2, Len(ext_list)) ELSE ext_list)

\* the loop of buscar_por_extensao from the k-th entry on: [exc, resultados]
RECURSIVE BuscarFrom(_, _, _, _)
BuscarFrom(lst, k, ext_list, resultados0) ==
    Let(resultados0, LAMBDA resultados :
    IF k > Len(lst) THEN [exc |-> "none", resultados |-> resultados]
    ELSE IF StatRaises(lst[k]) THEN [exc |-> "PermissionError", resultados |-> resultados]
    ELSE IF IsFile(lst[k]) /\ LastN(SuffixesLower(lst[k]), Len(ext_list)) = ext_list
    THEN BuscarFrom(lst, k + 1, ext_list, Append(resultados, lst[k]))
    ELSE BuscarFrom(lst, k + 1, ext_list, resultados))

\* buscar_por_extensao(pasta_base, extensao): [exc, resultados]
BuscarPorExtensao(pasta_base, extensao) ==
    IF ValidarCaminho(pasta_base) # "none"
    THEN [exc |-> ValidarCaminho(pasta_base), resultados |-> <<>>]
    ELSE IF StatRaises(pasta_base) THEN [exc |-> "PermissionError", resultados |-> <<>>]
    ELSE IF ~IsDir(pasta_base) THEN [exc |-> "none", resultados |-> <<>>]
    ELSE IF ListError(pasta_base) = "PermissionError"
    THEN [exc |-> "none", resultados |-> <<>>]
    ELSE IF ListError(pasta_base) # "none"
    THEN [exc |-> ListError(pasta_base), resultados |-> <<>>]
    ELSE Let(BuscarFrom(Listing(pasta_base), 1, ExtList(extensao), <<>>), LAMBDA res :
             IF res.exc = "PermissionError" THEN [exc |-> "none", resultados |-> <<>>]
             ELSE res)

\* stat().st_size
Size(path) == Len(fs[Stat(path).ino].content)

\* is_symlink(), is_file() or is_dir() of the entry raises, which ends the
\* loop over the directory
EntryRaises(entry) == LStatRaises(entry) \/ (~IsSymlink(entry) /\ StatRaises(entry))

\* scan(dir_path, nivel_atual) of obter_tamanho: the bytes it adds
RECURSIVE Scan(_, _, _)
RECURSIVE ScanFrom(_, _, _, _)
Scan(dir_path, nivel_atual, limite_nivel) ==
    IF nivel_atual > limite_nivel THEN 0
    ELSE IF ListError(dir_path) # "none" THEN 0
    ELSE ScanFrom(Listing(dir_path), 1, nivel_atual, limite_nivel)

ScanFrom(lst, k, nivel_atual, limite_nivel) ==
    IF k > Len(lst) THEN 0
    ELSE IF EntryRaises(lst[k]) THEN 0
    ELSE IF IsSymlink(lst[k]) THEN ScanFrom(lst, k + 1, nivel_atual, limite_nivel)
    ELSE IF IsFile(lst[k])
    THEN Size(lst[k]) + ScanFrom(lst, k + 1, nivel_atual, limite_nivel)
    ELSE IF IsDir(lst[k])
    THEN Scan(lst[k], nivel_atual + 1, limite_nivel)
           + ScanFrom(lst, k + 1, nivel_atual, limite_nivel)
    ELSE ScanFrom(lst, k + 1, nivel_atual, limite_nivel)

\* obter_tamanho(caminho_comum, limite_nivel): [exc, total]
ObterTamanho(caminho_comum, limite_nivel) ==
    IF StatRaises(caminho_comum) THEN [exc |-> "PermissionError", total |-> 0]
    ELSE IF IsFile(caminho_comum) THEN [exc |-> "none", total |-> Size(caminho_comum)]
    ELSE IF ~IsDir(caminho_comum) THEN [exc |-> "none", total |-> 0]
    ELSE [exc |-> "none", total |-> Scan(caminho_comum, 1, limite_nivel)]

N_archive == <<"a", "r", "c", "h", "i", "v", "e", ".", "t", "a", "r", ".", "g", "z">>
N_upper == <<"B", ".", "T", "a", "r", ".", "G", "Z">>
N_targz == <<"t", "a", "r", ".", "g", "z">>
N_dirgz == <<"d", ".", "t", "a", "r", ".", "g", "z">>
N_notes == <<"n", "o", "t", "e", "s">>

E_gz == <<"g", "z">>
E_targz == <<"t", "a", "r", ".", "g", "z">>
E_dotTARGZ == <<".", "T", "A", "R", ".", "G", "Z">>
E_zip == <<"z", "i", "p">>
E_H == <<".", "H">>

\* the entries other processes create under /r/a and /r/a/d
CreateArgs ==
    {<<2, "file", N_archive>>, <<2, "file", N_upper>>, <<2, "file", N_targz>>,
     <<2, "dir", N_dirgz>>, <<2, "file", N_notes>>, <<6, "file", N_archive>>}

\* the entry whose stat is refused (the mount point of another user)
DenySites == {6}

\* another process creates a file or a directory
EnvCreate(d, kind, name) ==
    /\ fsChanges < MaxFsChanges
    /\ calls < MaxCalls
    /\ <<d, kind, name>> \in CreateArgs
    /\ \E i \in Inodes : fs[i].kind = "free"
    /\ \E p \in Inodes : InSeq(d, fs[p].entries)
    /\ Lookup(d, name) = NoInode
    /\ fs' = [fs EXCEPT ![FreeInode] = [Node(kind, name, <<>>, NoInode)
                                          EXCEPT !.content = IF kind = "file"
                                                             THEN <<1, 2, 3, 4>> ELSE <<>>],
                        ![d].entries = Append(@, FreeInode)]
    /\ fsChanges' = fsChanges + 1
    /\ UNCHANGED <<ctrl, calls, last, arvore, item, probe, ret, cache>>

\* an entry becomes one whose stat and lstat are refused
EnvDeny(i) ==
    /\ fsChanges < MaxFsChanges
    /\ calls < MaxCalls
    /\ i \in DenySites
    /\ ~fs[i].denied
    /\ fs' = [fs EXCEPT ![i].denied = TRUE]
    /\ fsChanges' = fsChanges + 1
    /\ UNCHANGED <<ctrl, calls, last, arvore, item, probe, ret, cache>>

\* a directory with every extension, a file and a path that does not exist
SearchArgs ==
    ({P_a} \X {E_gz, E_targz, E_dotTARGZ, E_zip, E_H, <<>>})
      \cup {<<P_d, E_H>>, <<P_nt, E_gz>>, <<P_zz, E_gz>>}

SizeLimits == 0..(MaxDepthArg + 1)

SizeArgs == ({P_r} \X SizeLimits) \cup {<<P_a, 1>>, <<P_nt, 1>>, <<P_zz, 1>>}

\* resultados = buscar_por_extensao(pasta_base, extensao)
Search(pasta_base, extensao) ==
    /\ calls < MaxCalls
    /\ calls' = calls + 1
    /\ \E res \in {BuscarPorExtensao(pasta_base, extensao)} :
          ret' = [op |-> "search", exc |-> res.exc, at |-> fsChanges, path |-> pasta_base,
                  ext |-> extensao, limite |-> 0, result |-> res.resultados, total |-> 0]
    /\ UNCHANGED <<fs, fsChanges, ctrl, last, arvore, item, probe, cache>>

\* total = obter_tamanho(caminho_comum, limite_nivel)
SizeOf(caminho_comum, limite_nivel) ==
    /\ calls < MaxCalls
    /\ calls' = calls + 1
    /\ \E res \in {ObterTamanho(caminho_comum, limite_nivel)} :
          ret' = [op |-> "size", exc |-> res.exc, at |-> fsChanges, path |-> caminho_comum,
                  ext |-> <<>>, limite |-> limite_nivel, result |-> <<>>,
                  total |-> res.total]
    /\ UNCHANGED <<fs, fsChanges, ctrl, last, arvore, item, probe, cache>>

(***************************************************************************)
(* ColetorDeMetadados._calcular_tamanho_pasta (utils/system_path_info.py).  *)
(***************************************************************************)
\* a ceiling that lets the scan go one level further
BelowCeiling_Inclusive(nivel) == nivel <= 10

\* "if nivel < 10": the scan descends from this level
BelowCeiling(nivel) == nivel < 10

\* the exceptions the try block of scan absorbs
ScanCaught == OSErrors

\* _calcular_tamanho_pasta taken one entry at a time.  ret holds the
\* nonlocal totals, the directories iterdir() listed so far, with their
\* levels, and the stack of the calls of scan that are running, each with
\* its directory, the listing it iterates over, its place k in it and its
\* level.
NoScan ==
    [op |-> "none", exc |-> "none", at |-> 0, path |-> <<>>,
     total_tamanho |-> 0, total_itens |-> 0, limite_atingido |-> FALSE,
     listed |-> {}, stack |-> <<>>]

\* scan(diretorio, nivel) is entered from state r: a listing that raises is
\* absorbed by the try block of the new call, which returns at once
EnterScan(r, diretorio, nivel) ==
    Let(ListError(diretorio), LAMBDA le :
        IF le \in ScanCaught THEN r
        ELSE IF le # "none" THEN [r EXCEPT !.exc = le, !.stack = <<>>]
        ELSE [r EXCEPT
                !.listed = @ \cup {[dir |-> diretorio, nivel |-> nivel]},
                !.stack = Append(@, [dir |-> diretorio, lst |-> Listing(diretorio),
                                     k |-> 1, nivel |-> nivel])])

\* the running call of scan moves to its next entry
Advance(r) == [r EXCEPT !.stack[Len(r.stack)].k = @ + 1]

\* the running call of scan returns
Return(r) == [r EXCEPT !.stack = SubSeq(@, 1, Len(@) - 1)]

\* one turn of the loop "for item in diretorio.iterdir()" of the running call
ScanEntry(r) ==
    Let(r.stack[Len(r.stack)], LAMBDA f :
        IF f.k > Len(f.lst) THEN Return(r)
        ELSE IF StatRaises(f.lst[f.k])
        THEN IF "PermissionError" \in ScanCaught THEN Return(r)
             ELSE [r EXCEPT !.exc = "PermissionError", !.stack = <<>>]
        ELSE IF IsFile(f.lst[f.k])
        THEN [Advance(r) EXCEPT !.total_tamanho = @ + Size(f.lst[f.k]),
                                !.total_itens = @ + 1]
        ELSE IF IsDir(f.lst[f.k])
        THEN IF BelowCeiling(f.nivel)
             THEN EnterScan([Advance(r) EXCEPT !.total_itens = @ + 1],
                            f.lst[f.k], f.nivel + 1)
             ELSE [Advance(r) EXCEPT !.total_itens = @ + 1, !.limite_atingido = TRUE]
        ELSE Advance(r))

\* /r, whose link l leads back to it in one of the two trees, its directory
\* a, a file and a path that does not exist
TamanhoPaths == {P_r, P_a, P_nt, P_zz}

\* ColetorDeMetadados._calcular_tamanho_pasta(path) is called
ScanBegin(path) ==
    /\ calls < MaxCalls
    /\ ret.op # "scanning"
    /\ calls' = calls + 1
    /\ ret' = EnterScan([NoScan EXCEPT !.op = "scanning", !.at = fsChanges,
                                       !.path = path], path, 1)
    /\ UNCHANGED <<fs, fsChanges, ctrl, last, arvore, item, probe, cache>>

\* the scan goes on by one entry
ScanStep ==
    /\ ret.op = "scanning"
    /\ ret.stack # <<>>
    /\ ret' = ScanEntry(ret)
    /\ UNCHANGED <<fs, fsChanges, ctrl, calls, last, arvore, item, probe, cache>>

\* the outermost scan is over: the tuple is returned, or the exception raised
ScanEnd ==
    /\ ret.op = "scanning"
    /\ ret.stack = <<>>
    /\ ret' = [ret EXCEPT !.op = "folder_size"]
    /\ UNCHANGED <<fs, fsChanges, ctrl, calls, last, arvore, item, probe, cache>>

(***************************************************************************)
(* ResultadoNome (models/polimeros/monomeros.py).                          *)
(***************************************************************************)
LowerLetters ==
    <<"a", "b", "c", "d", "e", "f", "g", "h", "i", "j", "k", "l", "m", "n", "o", "p", "q", "r", "s", "t", "u", "v", "w", "x", "y", "z">>

UpperLetters ==
    <<"A", "B", "C", "D", "E", "F", "G", "H", "I", "J", "K", "L", "M", "N", "O", "P", "Q", "R", "S", "T", "U", "V", "W", "X", "Y", "Z">>

\* str.upper()
UpperChar(c) ==
    IF \E k \in 1..26 : LowerLetters[k] = c
    THEN UpperLetters[CHOOSE k \in 1..26 : LowerLetters[k] = c]
    ELSE c

Upper(s) == [i \in 1..Len(s) |-> UpperChar(s[i])]

\* Field(min_length=3, max_length=255)
MinLength == 3

MaxLength == 255

\* the character class of proibidos: \ / * ? < > | :
Proibidos == {"BS", "/", "*", "?", "<", ">", "|", ":"}

Reservados == {<<"C", "O", "N">>, <<"P", "R", "N">>, <<"A", "U", "X">>, <<"N", "U", "L">>}

\* the condition of validar_nome: the status it sets
ValidarNome(valor_entrada) ==
    /\ valor_entrada # <<>>
    /\ ~StartsWith(valor_entrada, <<".">>)
    /\ ~\E k \in 1..Len(valor_entrada) : valor_entrada[k] \in Proibidos
    /\ Upper(valor_entrada) \notin Reservados

\* ResultadoNome(valor_entrada=...): [exc, status]; the field constraints are
\* checked before the validator runs
ResultadoNome(valor_entrada) ==
    IF Len(valor_entrada) < MinLength \/ Len(valor_entrada) > MaxLength
    THEN [exc |-> "ValidationError", status |-> FALSE]
    ELSE [exc |-> "none", status |-> ValidarNome(valor_entrada)]

MaxNameLen == 3

NameChars == {"c", "O", "n", ".", "*", "a"}

\* a name of n legal characters
LongName(n) == [k \in 1..n |-> "a"]

\* every short name over NameChars, the reserved names in several cases and
\* with an extension, a hidden name, names at and beyond the length limit
Names ==
    UNION {[1..n -> NameChars] : n \in 0..MaxNameLen}
      \cup {<<"C", "O", "N">>, <<"P", "r", "n">>, <<"a", "u", "x">>, <<"n", "U", "l">>, <<"c", "o", "n", ".", "t", "x", "t">>, <<"N", "U", "L", ".", "h">>, <<"i", "c", "o", "n", ".", "t", "x", "t">>, <<".", "h", "i", "d", "d", "e", "n">>, <<"a", " ", "b">>}
      \cup {LongName(MaxLength), LongName(MaxLength + 1),
            <<".">> \o LongName(MaxLength - 1), Append(LongName(MaxLength - 1), "|")}

\* r = ResultadoNome(valor_entrada=name), for the name drawn at the start
ValidateName ==
    /\ ret.op = "arg"
    /\ calls' = calls + 1
    /\ \E res \in {ResultadoNome(ret.value)} :
          ret' = [op |-> "name", exc |-> res.exc, value |-> ret.value,
                  status |-> res.status]
    /\ UNCHANGED <<fs, fsChanges, ctrl, last, arvore, item, probe, cache>>

(***************************************************************************)
(* The size formatters: formatar_tamanho (utils/utils_comuns.py),          *)
(* formatar_tamanho_bytes (utils/global_tools.py) and                      *)
(* ColetorDeMetadados._formatar_tamanho (utils/system_path_info.py).       *)
(***************************************************************************)
\* A byte count is written in base 1024, lowest digit first, so that counts
\* beyond 2^31 can be formatted; the quotient of the divisions is
\* [int, frac]: the digits of its integer part and the digits that the
\* divisions moved behind the point.  Dividing a float by 1024 only lowers
\* its exponent, so the comparisons below see the values the code sees.
Quotient(n) == [int |-> n, frac |-> <<>>]

\* a comparison that also takes 1024 itself
Below1024_Inclusive(v) ==
    Len(v.int) <= 1 \/ (v.int = <<0, 1>> /\ \A j \in 1..Len(v.frac) : v.frac[j] = 0)

\* bytesize < 1024
Below1024(v) == Len(v.int) <= 1

\* bytesize /= 1024
Div1024(v) ==
    IF v.int = <<>> THEN [int |-> <<>>, frac |-> <<0>> \o v.frac]
    ELSE [int |-> Tail(v.int), frac |-> <<Head(v.int)>> \o v.frac]

\* f"{bytesize:.2f} {unit}": the quotient, written with two decimals, and
\* the unit
Rendered(v, unit) == [quotient |-> v, decimals |-> 2, unit |-> unit]

\* for unidade in ["B", "KB", "MB", "GB", "TB"]: ... of formatar_tamanho,
\* from the k-th unit on
RECURSIVE FormatarTamanhoFrom(_, _, _)
FormatarTamanhoFrom(unidades, k, bytesize) ==
    IF k > Len(unidades) THEN Rendered(bytesize, "PB")
    ELSE IF Below1024(bytesize) THEN Rendered(bytesize, unidades[k])
    ELSE FormatarTamanhoFrom(unidades, k + 1, Div1024(bytesize))

\* formatar_tamanho(bytesize)
FormatarTamanho(bytesize) ==
    FormatarTamanhoFrom(<<"B", "KB", "MB", "GB", "TB">>, 1, Quotient(bytesize))

\* the loop of formatar_tamanho_bytes from the k-th unit on
RECURSIVE FormatarTamanhoBytesFrom(_, _, _)
FormatarTamanhoBytesFrom(unidades, k, tamanho) ==
    IF k > Len(unidades) THEN Rendered(tamanho, unidades[Len(unidades)])
    ELSE IF Below1024(tamanho) \/ unidades[k] = unidades[Len(unidades)]
    THEN Rendered(tamanho, unidades[k])
    ELSE FormatarTamanhoBytesFrom(unidades, k + 1, Div1024(tamanho))

\* formatar_tamanho_bytes(tamanho_bytes)
FormatarTamanhoBytes(tamanho_bytes) ==
    FormatarTamanhoBytesFrom(<<"B", "KB", "MB", "GB", "TB", "PB">>, 1,
                             Quotient(tamanho_bytes))

\* the loop of _formatar_tamanho from the k-th unit on
RECURSIVE ColetorFormatarFrom(_, _, _)
ColetorFormatarFrom(units, k, bytesize) ==
    IF k > Len(units) THEN Rendered(bytesize, "TB")
    ELSE IF Below1024(bytesize) THEN Rendered(bytesize, units[k])
    ELSE ColetorFormatarFrom(units, k + 1, Div1024(bytesize))

\* ColetorDeMetadados._formatar_tamanho(bytesize)
ColetorFormatarTamanho(bytesize) ==
    ColetorFormatarFrom(<<"B", "KB", "MB", "GB">>, 1, Quotient(bytesize))

\* size_val < 10 * 1024, on a quotient whose highest digit is not 0
Below10K(v) == Len(v.int) <= 1 \/ (Len(v.int) = 2 /\ v.int[2] < 10)

\* the while loop of File.readable_size, i counting the divisions made
RECURSIVE ReadableSizeFrom(_, _, _)
ReadableSizeFrom(sizes, i, size_val) ==
    IF ~Below1024(size_val) /\ Below10K(size_val) /\ i < Len(sizes) - 1
    THEN ReadableSizeFrom(sizes, i + 1, Div1024(size_val))
    ELSE Rendered(size_val, sizes[i + 1])

\* File(raw_size = n).readable_size
ReadableSize(raw_size) ==
    ReadableSizeFrom(<<"B", "KB", "MB", "GB">>, 0, Quotient(raw_size))

MaxLimbs == 7

LimbValues == {0, 1, 1023}

\* 20000 = 544 + 19 * 1024
TwentyThousand == <<544, 19>>

\* 0 and every count of at most MaxLimbs base-1024 digits drawn from
\* LimbValues: 1023, 1024, 1048576, ... and counts beyond 1024 PB; and 20000
ByteCounts ==
    {<<>>} \cup {n \in UNION {[1..l -> LimbValues] : l \in 1..MaxLimbs} : n[Len(n)] # 0}
           \cup {TwentyThousand}

\* the three formatters applied to the count drawn at the start
Format ==
    /\ ret.op = "arg"
    /\ calls' = calls + 1
    /\ ret' = [op |-> "format", exc |-> "none", n |-> ret.value,
               comuns |-> FormatarTamanho(ret.value),
               global |-> FormatarTamanhoBytes(ret.value),
               coletor |-> ColetorFormatarTamanho(ret.value)]
    /\ UNCHANGED <<fs, fsChanges, ctrl, last, arvore, item, probe, cache>>

\* File.readable_size of a file whose raw_size is the count drawn at the start
ReadSize ==
    /\ ret.op = "arg"
    /\ calls' = calls + 1
    /\ ret' = [op |-> "readable_size", exc |-> "none", n |-> ret.value,
               file |-> ReadableSize(ret.value)]
    /\ UNCHANGED <<fs, fsChanges, ctrl, last, arvore, item, probe, cache>>

NoRet ==
    [op |-> "none", exc |-> "none", at |-> 0, path |-> <<>>, enc |-> "none", result |-> <<>>,
     wpath |-> <<>>, wenc |-> "none", wtext |-> <<>>, wat |-> 0]

\* the state before any call, with r in the place of the last result
InitWith(r) ==
    /\ fsChanges = 0
    /\ ctrl = NoCtrl
    /\ calls = 0
    /\ last = [op |-> "init", exc |-> "none", levels |-> <<>>, at |-> 0]
    /\ arvore = NoArvore
    /\ item = NoItem
    /\ probe = NoProbe
    /\ ret = r
    /\ cache = {}

Init ==
    /\ fs \in {InitialFs(TRUE), InitialFs(FALSE)}
    /\ InitWith(NoRet)

\* the start of a call of a function of its argument alone
InitArg(args) ==
    /\ fs = InitialFs(TRUE)
    /\ \E v \in args : InitWith([op |-> "arg", value |-> v])

(***************************************************************************)
(* What a traversal should discover, stated on sets and levels.            *)
(***************************************************************************)
\* explore_folder was the last call and the filesystem has not changed since
JustExplored == last.op = "explore" /\ last.at = fsChanges /\ ctrl.state = "ok"

\* the directory tree below a directory, links not followed
RECURSIVE Under(_)
Under(path) ==
    IF IsDir(path) /\ ~IsSymlink(path)
    THEN UNION {{c} \cup Under(c) : c \in SeqToSet(Listing(path))}
    ELSE {}

Height(base) ==
    LET ds == {Len(p) - Len(base) : p \in Under(base)}
    IN  IF ds = {} THEN 0 ELSE CHOOSE d \in ds : \A e \in ds : e <= d

HiddenName(name) == name # <<>> /\ name[1] = "."

\* a tree with no hidden entry, no link and nothing unreadable
PlainTree(base) ==
    /\ IsDir(base)
    /\ \A p \in {base} \cup Under(base) :
          /\ ~HiddenName(p[Len(p)])
          /\ ~IsSymlink(p)
          /\ LET st == Stat(p)
             IN  st.err = "ok" /\ fs[st.ino].r /\ fs[st.ino].x /\ ~fs[st.ino].listErr

\* the listing of folder f fails: os.listdir raises, or lstat of a child does
ListingFails(f, follow) ==
    \/ ListError(f) # "none"
    \/ ~follow /\ \E ch \in SeqToSet(Listing(f)) : LStatRaises(ch)

\* the children of f that pass the link skip and the validation
ListedKids(f, follow) ==
    IF ListingFails(f, follow) THEN {}
    ELSE {ch \in SeqToSet(Listing(f)) : follow \/ ~IsSymlink(ch)}

ValidKids(f, follow) == {ch \in ListedKids(f, follow) : ValidatePath(ch)}

\* the folders at depth k below the base that the traversal reaches
RECURSIVE ReachDirs(_, _, _)
ReachDirs(base, follow, k) ==
    IF k = 0 THEN {base}
    ELSE {ch \in UNION {ValidKids(f, follow) : f \in ReachDirs(base, follow, k - 1)} :
            IsDir(ch)}

\* every valid child found in levels 0..max_depth
Discovered(c) ==
    UNION {ValidKids(f, c.follow_symlinks) :
             f \in UNION {ReachDirs(c.base_path, c.follow_symlinks, k) : k \in 0..c.max_depth}}

Occurrences(x, s) == Cardinality({i \in 1..Len(s) : s[i] = x})

\* C1: BFS completeness: on a tree with no hidden entry, no link and no
\* permission error, explored with target_ext unset and max_depth at least the
\* tree height minus 1, folders holds the base and every directory of the tree
\* and files holds every regular file of the tree, each exactly once.
C1_BfsCompleteness ==
    (/\ JustExplored
     /\ PlainTree(ctrl.base_path)
     /\ ctrl.target_ext = None
     /\ ctrl.max_depth >= Height(ctrl.base_path) - 1)
    => /\ Occurrences(ctrl.base_path, ctrl.folders) = 1
       /\ \A p \in Under(ctrl.base_path) :
             /\ IsDir(p) => Occurrences(p, ctrl.folders) = 1
             /\ IsFile(p) => Occurrences(p, ctrl.files) = 1

\* C1 witness: a plain tree of height 3 was explored with max_depth 2 and its
\* deepest file was found
C1_Witness ==
    /\ JustExplored
    /\ PlainTree(ctrl.base_path)
    /\ ctrl.target_ext = None
    /\ Height(ctrl.base_path) = 3
    /\ ctrl.max_depth = 2
    /\ InSeq(Append(P_d, N_bm), ctrl.files)
    /\ InSeq(Append(P_r, N_x), ctrl.folders)

\* C2: BFS extension filter: with target_ext set, files never holds a file
\* whose lower-cased last suffix differs from target_ext; right after a
\* traversal it holds every discovered valid regular file whose suffix matches,
\* and when the filesystem never changed it holds exactly those; the folders
\* recorded and the levels expanded are those of a traversal without a filter.
C2_ExtensionFilter ==
    (ctrl.state = "ok" /\ ctrl.target_ext # None)
    => /\ \A i \in 1..Len(ctrl.files) :
             Lower(Suffix(ctrl.files[i][Len(ctrl.files[i])])) = ctrl.target_ext
       /\ JustExplored =>
             \A p \in Discovered(ctrl) :
                (IsFile(p) /\ Lower(Suffix(p[Len(p)])) = ctrl.target_ext)
                   => InSeq(p, ctrl.files)
       /\ (JustExplored /\ fsChanges = 0) =>
             /\ SeqToSet(ctrl.files) =
                   {p \in Discovered(ctrl) :
                      IsFile(p) /\ Lower(Suffix(p[Len(p)])) = ctrl.target_ext}
             /\ LET unfiltered ==
                       ExploreResult([ctrl EXCEPT !.target_ext = None, !.files = <<>>,
                                                  !.folders = <<>>, !.invalids = <<>>])
                IN  /\ ctrl.folders = unfiltered.folders
                    /\ last.levels = unfiltered.levels

\* C2 witness: with target_ext ".h" the traversal of /r kept r.H and i.h and
\* left n.t out
C2_Witness ==
    /\ JustExplored
    /\ ctrl.target_ext = <<".", "h">>
    /\ InSeq(Append(P_r, N_rH), ctrl.files)
    /\ InSeq(Append(P_a, N_ih), ctrl.files)
    /\ ~InSeq(P_nt, ctrl.files)
    /\ IsFile(P_nt)
    /\ P_nt \in Discovered(ctrl)

\* the folders the last traversal expanded
Expanded == UNION {SeqToSet(last.levels[k]) : k \in 1..Len(last.levels)}

HasHiddenSegment(path) == \E k \in 2..Len(path) : HiddenName(path[k])

\* readable for a file, readable and searchable for a directory
Accessible(path) ==
    Let(Stat(path), LAMBDA st :
        /\ st.err = "ok"
        /\ fs[st.ino].r
        /\ fs[st.ino].kind = "dir" => fs[st.ino].x)

JustConstructed == last.op = "construct" /\ last.at = fsChanges

\* C4: construction guard: the constructor raises ValueError exactly when the
\* base path has a non-anchor segment starting with "." or is not accessible;
\* otherwise it succeeds with files, folders and invalids empty.
C4_ConstructionGuard ==
    JustConstructed =>
       /\ last.exc = "ValueError"
             <=> (HasHiddenSegment(ctrl.base_path) \/ ~Accessible(ctrl.base_path))
       /\ last.exc = "none" =>
             /\ ctrl.state = "ok"
             /\ ctrl.files = <<>> /\ ctrl.folders = <<>> /\ ctrl.invalids = <<>>

\* the guard as the code applies it: a two-character segment ending in ":"
\* passes for a drive anchor wherever it stands
C4_GuardAsCoded ==
    JustConstructed =>
       (last.exc = "ValueError"
           <=> \/ \E k \in 1..Len(ctrl.base_path) :
                     /\ HiddenName(ctrl.base_path[k])
                     /\ ~(Len(ctrl.base_path[k]) = 2 /\ ctrl.base_path[k][2] = ":")
               \/ ~Accessible(ctrl.base_path))

\* C5: strict visibility: no path of files or folders has a segment other than
\* the anchor starting with "."; a listed child whose name starts with "." is
\* in invalids and is never expanded, so nothing below it is reported.
C5_StrictVisibility ==
    /\ \A p \in SeqToSet(ctrl.files) \cup SeqToSet(ctrl.folders) : ~HasHiddenSegment(p)
    /\ JustExplored =>
          \A f \in Expanded : \A ch \in ListedKids(f, ctrl.follow_symlinks) :
             HiddenName(ch[Len(ch)]) => (InSeq(ch, ctrl.invalids) /\ ch \notin Expanded)

\* a name the code takes for hidden: it starts with "." and is not a
\* two-character name ending in ":"
HiddenAsCoded(name) == HiddenName(name) /\ ~(Len(name) = 2 /\ name[2] = ":")

\* what holds of the code: the same with the names the code takes for hidden
C5_VisibilityAsCoded ==
    /\ \A p \in SeqToSet(ctrl.files) \cup SeqToSet(ctrl.folders) :
          \A k \in 1..Len(p) : ~HiddenAsCoded(p[k])
    /\ JustExplored =>
          \A f \in Expanded : \A ch \in ListedKids(f, ctrl.follow_symlinks) :
             HiddenAsCoded(ch[Len(ch)]) => (InSeq(ch, ctrl.invalids) /\ ch \notin Expanded)

\* C6: accumulator invariant: over any sequence of explore_folder and
\* filter_by_extension calls each of files, folders and invalids only grows
\* (the old list is a prefix of the new one) and none holds a path twice.
C6_Accumulators ==
    [][/\ IsPrefix(ctrl.files, ctrl'.files)
       /\ IsPrefix(ctrl.folders, ctrl'.folders)
       /\ IsPrefix(ctrl.invalids, ctrl'.invalids)
       /\ NoDup(ctrl'.files) /\ NoDup(ctrl'.folders) /\ NoDup(ctrl'.invalids)]_vars

\* what holds of the code: the three lists only grow, files and folders hold
\* no path twice
C6_GrowthAsCoded ==
    [][/\ IsPrefix(ctrl.files, ctrl'.files)
       /\ IsPrefix(ctrl.folders, ctrl'.folders)
       /\ IsPrefix(ctrl.invalids, ctrl'.invalids)
       /\ NoDup(ctrl'.files) /\ NoDup(ctrl'.folders)]_vars

\* the depth of a path below the base: the number of parts after the base
DepthBelow(p, base) == Len(p) - Len(base)

\* the paths the controller has recorded
Recorded == SeqToSet(ctrl.files) \cup SeqToSet(ctrl.folders)

\* C21: BFS depth bound: explore_folder lists the children of a folder only
\* if the folder lies at depth at most max_depth below base_path (the k-th
\* level expanded holds folders of depth k - 1), so every recorded file or
\* folder lies at depth at most max_depth + 1; with max_depth = 0 only
\* base_path is listed and only its direct children are recorded; no empty
\* frontier is expanded, and the loop ends before max_depth + 1 levels only
\* when the last level yielded no folder.
C21_DepthBound ==
    /\ last.op = "explore" =>
          /\ Len(last.levels) <= ctrl.max_depth + 1
          /\ \A k \in 1..Len(last.levels) :
                /\ last.levels[k] # <<>>
                /\ \A f \in SeqToSet(last.levels[k]) :
                      /\ IsPrefix(ctrl.base_path, f)
                      /\ DepthBelow(f, ctrl.base_path) = k - 1
                      /\ DepthBelow(f, ctrl.base_path) <= ctrl.max_depth
          /\ ctrl.max_depth = 0 => last.levels = << <<ctrl.base_path>> >>
    /\ ctrl.state = "ok" =>
          \A p \in Recorded :
             /\ IsPrefix(ctrl.base_path, p)
             /\ DepthBelow(p, ctrl.base_path) <= ctrl.max_depth + 1
    /\ (JustExplored /\ Len(last.levels) < ctrl.max_depth + 1) =>
          ReachDirs(ctrl.base_path, ctrl.follow_symlinks, Len(last.levels)) = {}

\* C21 witness: /r was explored with max_depth 1: /r and /r/a were listed,
\* /r/a/d was recorded at depth 2 and not listed, so its file is not recorded
C21_Witness ==
    /\ JustExplored
    /\ ctrl.base_path = P_r
    /\ ctrl.max_depth = 1
    /\ Len(last.levels) = 2
    /\ InSeq(P_a, last.levels[2])
    /\ InSeq(P_d, ctrl.folders)
    /\ IsFile(Append(P_d, N_bm))
    /\ ~InSeq(Append(P_d, N_bm), ctrl.files)

\* C22: only new folders feed the frontier: a folder enters the frontier of
\* the next level only if the folders accumulator did not hold it yet, so no
\* level of a call after the first holds a folder the accumulator held when
\* the call began.
C22_OnlyNewFoldersFeedFrontier ==
    [][(last'.op = "explore" /\ calls' = calls + 1) =>
          \A k \in 2..Len(last'.levels) : \A f \in SeqToSet(last'.levels[k]) :
             ~InSeq(f, ctrl.folders)]_vars

\* what holds of the code: every valid directory listed at a level is in the
\* frontier of the next level, seen before or not
C22_FrontierAsCoded ==
    [][(last'.op = "explore" /\ calls' = calls + 1 /\ ctrl.state = "ok") =>
          \A k \in 2..Len(last'.levels) :
             SeqToSet(last'.levels[k]) =
                {ch \in UNION {ValidKids(f, ctrl.follow_symlinks) :
                                 f \in SeqToSet(last'.levels[k - 1])} : IsDir(ch)}]_vars

\* the place of x in the sequence s (0 when absent)
IndexOf(x, s) ==
    IF InSeq(x, s) THEN CHOOSE i \in 1..Len(s) : s[i] = x /\ \A j \in 1..(i - 1) : s[j] # x
    ELSE 0

\* the sequence s of discovered paths is in breadth order: depth never
\* decreases; among paths of one depth the parents stand in the order of the
\* frontier, and the children of one parent in the order of its listing
BreadthOrdered(s, frontierOrder) ==
    \A i \in 1..Len(s), j \in 1..Len(s) :
       i < j =>
          /\ Len(s[i]) <= Len(s[j])
          /\ Len(s[i]) = Len(s[j]) =>
                LET pi == Parent(s[i])
                    pj == Parent(s[j])
                IN  /\ IndexOf(pi, frontierOrder) <= IndexOf(pj, frontierOrder)
                    /\ pi = pj => IndexOf(s[i], Listing(pi)) < IndexOf(s[j], Listing(pi))

\* C23: strict breadth order: after explore_folder on a fresh controller the
\* levels expanded hold depths 0, 1, 2, ... in turn, every path of folders
\* and of files found at depth d stands before every path found at depth
\* d + 1, and within a level the paths keep the order of the frontier and of
\* the directory listings.
C23_BreadthOrder ==
    [][(last'.op = "explore" /\ calls' = calls + 1 /\ ctrl.folders = <<>> /\ ctrl.files = <<>>) =>
          /\ ctrl'.folders # <<>> /\ ctrl'.folders[1] = ctrl.base_path
          /\ BreadthOrdered(ctrl'.folders, ctrl'.folders)
          /\ BreadthOrdered(ctrl'.files, ctrl'.folders)
          /\ \A k \in 1..Len(last'.levels) :
                last'.levels[k] =
                   SelectSeq(ctrl'.folders,
                             LAMBDA p : DepthBelow(p, ctrl.base_path) = k - 1)]_vars

\* C23 witness: the first traversal of the plain tree /r with max_depth 2
\* recorded the folders and the files level by level, in listing order
C23_Witness ==
    /\ JustExplored
    /\ calls = 1
    /\ ctrl.folders = <<P_r, P_a, Append(P_r, N_x), P_d>>
    /\ ctrl.files = <<Append(P_r, N_rH), P_nt, Append(P_a, N_ih), Append(P_d, N_bm)>>

NextExplorer ==
    \/ Env
    \/ \E a \in ConstructArgs : Construct(a[1], a[2], a[3], a[4])
    \/ ExploreFolder
    \/ \E cs \in ChildLists, e \in ExtArgs : FilterByExtension(cs, e)

SpecExplorer == Init /\ [][NextExplorer]_vars

(***************************************************************************)
(* Termination of the traversal, on the loop taken level by level.         *)
(***************************************************************************)
\* a link that leads back to a directory above it
LinkToAncestor(p) ==
    /\ IsSymlink(p)
    /\ \E k \in 1..(Len(p) - 1) : CanonOf(Stat(p).ino) = SubSeq(p, 1, k)

\* C24: termination of the traversal: for either value of follow_symlinks,
\* links back to an ancestor included, a call of explore_folder expands at
\* most max_depth + 1 levels and then returns.
C24_TraversalTerminates ==
    /\ [](ret.op \in {"exploring", "explored"} => ret.expansions <= ctrl.max_depth + 1)
    /\ (ret.op = "exploring") ~> (ret.op = "explored")

\* C24 witness: with links followed, a traversal from /r/a/d went through the
\* link back to /r and into /r/a again, and returned after max_depth + 1
\* levels with a frontier still to expand
C24_Witness ==
    /\ ret.op = "explored"
    /\ ctrl.follow_symlinks
    /\ ctrl.base_path = P_d
    /\ LinkToAncestor(Append(P_d, N_l))
    /\ InSeq(Append(Append(Append(P_d, N_l), N_a), N_d), ctrl.folders)
    /\ ret.expansions = ctrl.max_depth + 1
    /\ ret.frontier # <<>>

NextTraversal ==
    \/ Env
    \/ \E a \in TraverseArgs : Construct(a[1], a[2], a[3], a[4])
    \/ TraverseBegin
    \/ TraverseLevel
    \/ TraverseEnd

\* the program runs the loop on: a level that can be expanded is expanded and
\* a loop that is over returns
SpecTraversal ==
    Init /\ [][NextTraversal]_vars /\ WF_vars(TraverseLevel) /\ WF_vars(TraverseEnd)

(***************************************************************************)
(* Claims about FileSystemItem and its factory.                            *)
(***************************************************************************)
\* the factory has just returned (or raised) and the filesystem is as it saw it
JustMolded == probe.op = "mold" /\ probe.at = fsChanges

\* what the operating system answers for the path: stating it, then listing it
StatFails(p, e) == Stat(p).err = e
ListsWith(p, e) == Stat(p).err = "ok" /\ fs[Stat(p).ino].kind # "file" /\ ListError(p) = e

\* C7: moldar_objeto never raises an OS error; its item is NON_EXISTENT when the
\* path does not exist (a File placeholder if the name has a suffix, otherwise a
\* Directory placeholder), ACCESS_DENIED when stating or listing raises a
\* permission error, INVALID with the error text as reason on any other OS
\* error, and VALID only when the path was successfully inspected.
C7_FactoryOutcome ==
    JustMolded =>
       /\ probe.raised = "none"
       /\ item.kind \in {"File", "Directory"}
       /\ StatFails(item.path, "ENOENT") =>
             /\ item.validity = "non_existent"
             /\ item.kind = (IF Suffix(item.name) # <<>> THEN "File" ELSE "Directory")
       /\ (StatFails(item.path, "EACCES") \/ ListsWith(item.path, "PermissionError")) =>
             item.validity = "access_denied"
       /\ (\E e \in OSErrors \ {"PermissionError"} : ListsWith(item.path, e)) =>
             /\ item.validity = "invalid"
             /\ item.validity_reason.text = "OSError"
             /\ item.validity_reason.errno \in {"EIO", "ENOTDIR"}
             /\ item.validity_reason.path = item.path
       /\ item.validity = "valid" =>
             /\ StatFails(item.path, "ok")
             /\ (fs[Stat(item.path).ino].kind = "file" \/ ListsWith(item.path, "none"))

C7_Witness ==
    /\ JustMolded
    /\ ListsWith(item.path, "OSError")
    /\ item.validity = "invalid"
    /\ item.kind = "Directory"

\* C8: in every reachable state of an item, is_valid() is true iff validity is
\* VALID, and can_access() is true iff validity is VALID or ACCESS_DENIED (false
\* for INVALID, NON_EXISTENT and SYSTEM).
C8_ValidityPredicates ==
    item.kind # "none" =>
       /\ item.validity \in PathValidity
       /\ IsValid(item) <=> (item.validity = "valid")
       /\ CanAccess(item) <=> (item.validity = "valid" \/ item.validity = "access_denied")
       /\ item.validity \in {"invalid", "non_existent", "system"} => ~CanAccess(item)

C8_Witness ==
    /\ item.kind # "none"
    /\ item.validity = "access_denied"
    /\ CanAccess(item)
    /\ ~IsValid(item)

\* C9: version starts at 1 and always equals 1 plus the length of
\* change_history; the i-th record carries the version string i; records
\* already appended are never modified, reordered or removed.
C9_AuditTrail ==
    [][item'.kind # "none" =>
         /\ item.kind = "none" => (item'.version = 1 /\ item'.change_history = <<>>)
         /\ item'.version = 1 + Len(item'.change_history)
         /\ \A i \in 1..Len(item'.change_history) :
               item'.change_history[i].version = Str(i)
         /\ item.kind # "none" => IsPrefix(item.change_history, item'.change_history)]_vars

C9_Witness ==
    /\ item.kind # "none"
    /\ Len(item.change_history) >= 2
    /\ item.version = 3
    /\ item.change_history[2].version = <<"2">>

\* C29: validity is one-way: whatever sequence of mark_as_invalid,
\* mark_as_non_existent, mark_as_access_denied and add_to_change_history
\* calls an item receives, every change of its validity leads into INVALID,
\* NON_EXISTENT or ACCESS_DENIED, never back to VALID and never to SYSTEM;
\* add_to_change_history leaves the validity as it is.
C29_ValidityOneWay ==
    [][(item.kind # "none" /\ item' # item) =>
          /\ item'.validity # item.validity =>
                item'.validity \in {"invalid", "non_existent", "access_denied"}
          /\ probe'.op = "history" => item'.validity = item.validity]_vars

\* C29 witness: an item was marked access-denied and then had a change
\* recorded, keeping that validity
C29_Witness ==
    /\ probe.op = "history"
    /\ item.validity = "access_denied"
    /\ item.validity_reason = Reason("Access denied")
    /\ item.change_history # <<>>
    /\ item.path = P_nt

NextItem ==
    \/ (item.kind = "none" /\ Env)
    \/ \E p \in MoldPaths : Mold(p)
    \/ \E k \in {"File", "Directory"}, v \in PathValidity : ConstructItem(k, P_nt, v)
    \/ MarkAsInvalid(Reason("bad name"))
    \/ MarkAsNonExistent
    \/ MarkAsAccessDenied
    \/ \E t \in ChangeTypes : AddToChangeHistory(t, "d")

SpecItem == Init /\ [][NextItem]_vars

(***************************************************************************)
(* Claims about the tree builder.                                          *)
(***************************************************************************)
\* the tree builder has just answered and the filesystem is as it saw it
JustBuilt == arvore.status # "none" /\ arvore.at = fsChanges

\* no entry has lost a permission and no listing fails
AllReadable == \A i \in Inodes : fs[i].r /\ fs[i].x /\ ~fs[i].listErr

\* the subfolders among the entries of a folder
Subfolders(path) == {ch \in SeqToSet(Listing(path)) : IsDir(ch)}

\* a root containing two subfolders, each containing further subfolders
TwoDeepSubfolders(base) ==
    /\ IsDir(base)
    /\ Cardinality(Subfolders(base)) = 2
    /\ \A sub \in Subfolders(base) : Subfolders(sub) # {}

\* the call the claim is about: limite_pastas = 1 on such a root
BoundedBuild ==
    /\ JustBuilt
    /\ arvore.limite_pastas = 1
    /\ AllReadable
    /\ TwoDeepSubfolders(arvore.base)

RECURSIVE ListedIn(_)
ListedIn(nodes) ==
    IF nodes = <<>> THEN 0
    ELSE (IF Head(nodes).children # <<>> THEN 1 ELSE 0)
         + ListedIn(Head(nodes).children) + ListedIn(Tail(nodes))

\* no node deeper than profundidade_maxima has children
RECURSIVE ShallowEnough(_, _)
ShallowEnough(node, depth) ==
    /\ node.children # <<>> => depth <= arvore.profundidade_maxima
    /\ \A k \in 1..Len(node.children) : ShallowEnough(node.children[k], depth + 1)

\* the node stands for the folder at path: it bears the folder's name, and
\* when it has children they are, in listing order, a file node for every
\* entry that is not a directory and a folder node (with or without
\* children) for every directory, up to the end of the listing or to a final
\* error node
RECURSIVE Emitted(_, _)
Emitted(node, path) ==
    LET p == Resolve(path)
        items == Listing(p)
        n == Len(node.children)
        failed == n > 0 /\ node.children[n].type = "error"
        real == IF failed THEN n - 1 ELSE n
    IN  /\ node.type = "folder"
        /\ node.name = NameOf(p)
        /\ failed => node.children[n] = PermissionDeniedNode(p)
        /\ real <= Len(items)
        /\ (n > 0 /\ ~failed) => n = Len(items)
        /\ \A k \in 1..real :
              IF IsDir(items[k]) THEN Emitted(node.children[k], items[k])
              ELSE node.children[k] = FileNode(NameOf(items[k]))

\* C25: tree builder limits: in every tree returned, the folders whose
\* children were listed (one counter for the whole call) number at most
\* limite_pastas, no folder node deeper than profundidade_maxima has children,
\* and every directory entry of a listed folder is a node of the tree, with
\* an empty children list when a limit cut it off.
C25_TreeLimits ==
    arvore.status = "ok" =>
       /\ arvore.cnt <= arvore.limite_pastas
       /\ ListedIn(<<arvore.tree>>) <= arvore.cnt
       /\ ShallowEnough(arvore.tree, 0)
       /\ JustBuilt => Emitted(arvore.tree, arvore.base)

\* C25 witness: /r built with limite_pastas 2: /r and /r/a were listed, and
\* /r/a/d, which has entries, is a node with no children, as is /r/x
C25_Witness ==
    /\ JustBuilt
    /\ arvore.status = "ok"
    /\ arvore.base = P_r
    /\ arvore.limite_pastas = 2
    /\ arvore.cnt = 2
    /\ Len(arvore.tree.children) = 4
    /\ arvore.tree.children[1].children # <<>>
    /\ arvore.tree.children[1].children[1] = FolderNode(N_d, <<>>)
    /\ Listing(P_d) # <<>>
    /\ arvore.tree.children[2].type = "folder"
    /\ arvore.tree.children[2].children = <<>>

\* the k-th entry of the built folder is a directory without read permission,
\* early enough in the listing for both limits to let it be visited
UnreadableEntry(k) ==
    LET p == Resolve(arvore.base)
    IN  /\ JustBuilt
        /\ CheckValidPath(arvore.base).exc = "none"
        /\ IsDir(p)
        /\ ListError(p) = "none"
        /\ arvore.profundidade_maxima >= 1
        /\ arvore.limite_pastas >= 2
        /\ k \in 1..Len(Listing(p))
        /\ \A j \in 1..(k - 1) : IsFile(Listing(p)[j])
        /\ IsDir(Listing(p)[k])
        /\ ~AccessR(Listing(p)[k])

\* C26: tree builder permission handling: when a folder U of the tree cannot
\* be read the call still returns; the node of U has the single child
\* 'PERMISSION_DENIED (<path of U>)' of type 'error', and the parent's
\* children list has a node for every entry of the parent.
C26_PermissionHandling ==
    \A k \in Inodes :
       UnreadableEntry(k) =>
          LET p == Resolve(arvore.base)
              U == Listing(p)[k]
          IN  /\ arvore.status = "ok"
              /\ Len(arvore.tree.children) = Len(Listing(p))
              /\ arvore.tree.children[k] =
                    FolderNode(NameOf(U), <<PermissionDeniedNode(U)>>)
              /\ \A j \in 1..Len(Listing(p)) :
                    arvore.tree.children[j].name = NameOf(Resolve(Listing(p)[j]))

\* what holds of the code: the parent's children list ends, at the place of
\* U, with an error node that bears the parent's path
C26_PermissionAsCoded ==
    \A k \in Inodes :
       UnreadableEntry(k) =>
          /\ arvore.status = "ok"
          /\ Len(arvore.tree.children) = k
          /\ arvore.tree.children[k] = PermissionDeniedNode(Resolve(arvore.base))

NextTree ==
    \/ Env
    \/ \E b \in TreeBases, pm \in DepthArgs, lp \in 0..MaxFolders : BuildTree(b, pm, lp)

SpecTree == Init /\ [][NextTree]_vars

(***************************************************************************)
(* Claims about the text file functions and the CSV export.                *)
(***************************************************************************)
\* a read that returned, of the path last written, with the encoding of that
\* write, nothing else having touched the filesystem since
ReadBack ==
    /\ ret.op = "read"
    /\ ret.exc = "none"
    /\ ret.wpath = ret.path
    /\ ret.wenc = ret.enc
    /\ ret.wat = fsChanges

\* C11: after any sequence of writes to a path, reading it with the same
\* encoding returns exactly the content of the last write.
C11_RoundTrip == ReadBack => ret.result = ret.wtext

\* what the code guarantees instead: the last content with every \r\n and \r
\* turned into \n, and nothing of earlier contents
C11_RoundTripAsCoded == ReadBack => ret.result = TranslateIn(ret.wtext)

\* a read has just been made
ReadStep == ret'.op = "read" /\ calls' = calls + 1

\* C12: reading a path that does not exist, or that exists but is not a
\* regular file, raises FileNotFoundError, and a read creates or modifies
\* nothing on the filesystem.
C12_ReadFailsFast ==
    [][ReadStep =>
          /\ fs' = fs
          /\ Stat(ret'.path).err = "ENOENT" => ret'.exc = "FileNotFoundError"
          /\ (Stat(ret'.path).err = "ok" /\ fs[Stat(ret'.path).ino].kind # "file") =>
                ret'.exc = "FileNotFoundError"]_vars

C12_Witness ==
    /\ ret.op = "read"
    /\ ret.at = fsChanges
    /\ IsDir(ret.path)
    /\ ret.exc = "FileNotFoundError"

\* str.split("\n")
SplitLines(text) ==
    Let(<<0>> \o SelectSeq(Indexes(text), LAMBDA k : text[k] = "LF") \o <<Len(text) + 1>>,
        LAMBDA seps :
        [j \in 1..(Len(seps) - 1) |-> SubSeq(text, seps[j] + 1, seps[j + 1] - 1)])

\* the lines of the destination after an export that returned
ExportedLines == SplitLines(Decode(fs[Stat(ret.path).ino].content, "utf-8").text)

JustExported == ret.op = "csv" /\ ret.exc = "none" /\ ret.at = fsChanges

NoCommaNoNewline(s) == \A k \in 1..Len(s) : s[k] \notin {",", "LF", "CR"}

\* C13: for lists of folders and files whose names and paths hold no comma or
\* newline, the destination holds exactly 1 + |folders| + |files| lines: the
\* header, a PASTA line per folder in input order, then an ARQUIVO line per
\* file in input order, whatever the destination held before.
C13_CsvShape ==
    (JustExported /\ \A l \in {1, 2} : \A k \in 1..Len(ret.result[l]) :
                        NoCommaNoNewline(PathStr(ret.result[l][k]))) =>
       /\ Len(ExportedLines) = 1 + Len(ret.result[1]) + Len(ret.result[2])
       /\ ExportedLines[1] = CsvHeader
       /\ \A k \in 1..Len(ret.result[1]) :
             ExportedLines[1 + k] =
                <<"P", "A", "S", "T", "A", ",">> \o NameOf(ret.result[1][k]) \o <<",">>
                   \o PathStr(ret.result[1][k])
       /\ \A k \in 1..Len(ret.result[2]) :
             ExportedLines[1 + Len(ret.result[1]) + k] =
                <<"A", "R", "Q", "U", "I", "V", "O", ",">> \o NameOf(ret.result[2][k])
                   \o <<",">> \o PathStr(ret.result[2][k])

C13_Witness ==
    /\ JustExported
    /\ ret.path = Append(P_d, N_bm)
    /\ Len(ret.result[1]) = 2
    /\ Len(ret.result[2]) = 1
    /\ Len(ExportedLines) = 4

NextFiles ==
    \/ Env
    \/ \E a \in ReadArgs : ReadText(a[1], a[2])
    \/ \E a \in WriteArgs : WriteText(a[1], a[2], a[3])
    \/ \E a \in CsvArgs : ExportarCsv(a[1], a[2], a[3])

SpecFiles == Init /\ [][NextFiles]_vars

(***************************************************************************)
(* The metadata collector: documents against the schema, and the hash      *)
(* cache.                                                                  *)
(***************************************************************************)
JustCollected == ret.op = "collect" /\ ret.exc = "none"

\* C14: every document coletar_aprimorado produces is accepted by
\* validar_estrutura: a PASTA document carries conteudo and profundidade, an
\* ARQUIVO document carries neither and carries both hashes
C14_CollectorSchema ==
    JustCollected =>
        /\ ValidarEstrutura(ret.doc) = "none"
        /\ ret.doc.tipo = "PASTA" =>
              ret.doc.conteudo.kind # "None" /\ ret.doc.profundidade.kind # "None"
        /\ ret.doc.tipo = "ARQUIVO" =>
              /\ ret.doc.conteudo.kind = "None" /\ ret.doc.profundidade.kind = "None"
              /\ ret.doc.hash_sha256.kind # "None" /\ ret.doc.hash_md5.kind # "None"

\* what the code does hold: directories pass the validator, a file document
\* has no conteudo and both hashes but a profundidade of 0
C14_SchemaAsCoded ==
    JustCollected =>
        /\ ret.doc.tipo \in {"PASTA", "ARQUIVO"}
        /\ ret.doc.tipo = "PASTA" => ValidarEstrutura(ret.doc) = "none"
        /\ ret.doc.tipo = "ARQUIVO" =>
              /\ ValidarEstrutura(ret.doc) = "ValueError"
              /\ ret.doc.conteudo.kind = "None" /\ ret.doc.profundidade = PyInt(0)
              /\ ret.doc.hash_sha256.kind = "str" /\ ret.doc.hash_md5.kind = "str"

\* the step is a call of _calcular_hash on the path of cache entry e
HashCallOn(e) == calls' = calls + 1 /\ ret'.op = "hash" /\ CacheKey(ret'.path) = e.key

\* no step changes or removes a cache entry, and no key gets a second value
CacheKept ==
    /\ cache \subseteq cache'
    /\ \A e1, e2 \in cache' : e1.key = e2.key => e1 = e2

\* C15: once _calcular_hash has succeeded for a path, every later call for
\* that path returns the cached pair without reading the file, whatever
\* happened to the file in between, and no cache entry is changed or removed
C15_HashMemoization ==
    [][/\ CacheKept
       /\ \A e \in cache :
             HashCallOn(e) =>
                ret'.exc = "none" /\ ret'.result = e.value /\ ~ret'.read]_vars

\* C15 (amended): the same, for the later calls made while the path still
\* names a regular file
C15_HashMemoizationWhileFile ==
    [][/\ CacheKept
       /\ \A e \in cache :
             HashCallOn(e) /\ IsFile(ret'.path) =>
                ret'.exc = "none" /\ ret'.result = e.value /\ ~ret'.read]_vars

\* a call answered from the cache after the file got another content
C15_Witness ==
    /\ ret.op = "hash" /\ ret.exc = "none" /\ ~ret.read
    /\ IsFile(ret.path)
    /\ \E e \in cache :
          /\ e.key = CacheKey(ret.path) /\ ret.result = e.value
          /\ e.value[1].value[2] # fs[Stat(ret.path).ino].content

\* C16: for a regular file whose opening or reading fails with an OS-level
\* error, _calcular_hash returns (0, 0) instead of raising and adds no entry
\* to the cache
C16_HashReadFailure ==
    [][(/\ calls' = calls + 1 /\ ret'.op = "hash"
        /\ IsFile(ret'.path) /\ Cached(ret'.path) = {}
        /\ OpenRead(ret'.path).exc # "none")
         => ret'.exc = "none" /\ ret'.result = ZeroPair /\ cache' = cache]_vars

\* what the code does hold: the OS-level error leaves the call, and the cache
\* gets no entry
C16_ReadFailureAsCoded ==
    [][(/\ calls' = calls + 1 /\ ret'.op = "hash"
        /\ IsFile(ret'.path) /\ Cached(ret'.path) = {}
        /\ OpenRead(ret'.path).exc # "none")
         => ret'.exc = OpenRead(ret'.path).exc /\ cache' = cache]_vars

\* the largest number of separators, beyond the root prefix, in the path of
\* a directory the walk visits
DeepestVisited(caminho) ==
    LET ds == {WalkDepth(root, caminho) : root \in SeqToSet(WalkRoots(caminho))}
    IN  IF ds = {} THEN 0 ELSE CHOOSE d \in ds : \A e \in ds : e <= d

\* C27: collector directory depth: the profundidade of a directory document
\* is the maximum, over the directories the subtree walk visits, of the
\* number of path separators beyond the root prefix (0 for the root and its
\* direct subdirectories, 1 for theirs, and so on).
C27_DirectoryDepth ==
    (JustCollected /\ ret.at = fsChanges /\ ret.doc.tipo = "PASTA") =>
       ret.doc.profundidade = PyInt(DeepestVisited(NormalizarCaminho(ret.path)))

\* what holds of the code: the depth kept is never raised above 0
C27_DepthAsCoded ==
    (JustCollected /\ ret.doc.tipo = "PASTA") => ret.doc.profundidade = PyInt(0)

\* _calcular_tamanho_pasta has just returned and the filesystem is as it saw it
JustScanned == ret.op = "folder_size" /\ ret.at = fsChanges

\* the entries of a listed directory the loop of scan gets to: those before
\* the first entry whose is_file() raises
ReachedEntries(dir) ==
    {k \in 1..Len(Listing(dir)) : \A j \in 1..k : ~StatRaises(Listing(dir)[j])}

\* C28: collector scan ceiling: _calcular_tamanho_pasta lists no directory
\* nested more than 10 levels (the scanned root is level 1, each listed
\* directory one level below the listed directory that holds it); it sets
\* limit_reached exactly when a directory was found at the ceiling and not
\* descended; it never raises, and every other directory found below the
\* ceiling is listed unless its own listing fails, every entry the scan gets
\* to being counted.
C28_ScanCeiling ==
    /\ ret.op = "folder_size" => ret.exc = "none"
    /\ ret.op \in {"scanning", "folder_size"} =>
          /\ \A k \in 1..Len(ret.stack) : ret.stack[k].nivel = k
          /\ \A e \in ret.listed :
                /\ e.nivel \in 1..10
                /\ e.nivel = 1 + DepthBelow(e.dir, ret.path)
                /\ e.nivel > 1 => [dir |-> Parent(e.dir), nivel |-> e.nivel - 1] \in ret.listed
    /\ JustScanned =>
          /\ ret.limite_atingido <=>
                \E e \in ret.listed :
                   e.nivel = 10 /\ \E k \in ReachedEntries(e.dir) : IsDir(Listing(e.dir)[k])
          /\ ([dir |-> ret.path, nivel |-> 1] \in ret.listed) <=> ListError(ret.path) = "none"
          /\ \A e \in ret.listed : \A k \in ReachedEntries(e.dir) :
                (IsDir(Listing(e.dir)[k]) /\ e.nivel < 10) =>
                   ([dir |-> Listing(e.dir)[k], nivel |-> e.nivel + 1] \in ret.listed
                       <=> ListError(Listing(e.dir)[k]) = "none")
          /\ ret.total_itens =
                Cardinality({ek \in UNION {{<<e.dir, k>> : k \in ReachedEntries(e.dir)} :
                                             e \in ret.listed} :
                               IsFile(Listing(ek[1])[ek[2]]) \/ IsDir(Listing(ek[1])[ek[2]])})

\* C28 witness: the scan of /r went down through the link that leads back
\* to /r, listed a directory at level 10, found a directory in it and did
\* not descend
C28_Witness ==
    /\ JustScanned
    /\ ret.path = P_r
    /\ ret.limite_atingido
    /\ \E e \in ret.listed :
          e.nivel = 10 /\ \E k \in ReachedEntries(e.dir) : IsDir(Listing(e.dir)[k])
    /\ \A e \in ret.listed : e.nivel <= 10

NextCollector ==
    \/ Env
    \/ \E i \in Inodes : EnvRewrite(i)
    \/ \E i \in Inodes : EnvReadError(i)
    \/ \E path \in HashPaths : Hash(path)
    \/ \E path \in CollectPaths : Collect(path)

SpecCollector == Init /\ [][NextCollector]_vars

\* the folder scan, entry by entry; other processes change the filesystem
\* between two scans
NextScan ==
    \/ (ret.op # "scanning" /\ Env)
    \/ \E path \in TamanhoPaths : ScanBegin(path)
    \/ ScanStep
    \/ ScanEnd

SpecScan == Init /\ [][NextScan]_vars

(***************************************************************************)
(* Extension search and directory size.                                    *)
(***************************************************************************)
JustSearched == ret.op = "search" /\ ret.at = fsChanges

JustSized == ret.op = "size" /\ ret.at = fsChanges

\* what a directory holds, as paths
Entries(dir) ==
    IF Stat(dir).err = "ok" /\ fs[Stat(dir).ino].kind = "dir" THEN SeqToSet(Listing(dir))
    ELSE {}

\* the components of a requested extension: split on ".", leading dot ignored
Components(ext) ==
    Let(IF StartsWith(ext, <<".">>) THEN SubSeq(ext, 2, Len(ext)) ELSE ext, LAMBDA e :
        IF e = <<>> THEN <<>> ELSE SplitDot(Lower(e)))

\* the last n suffix components of the name, lower-cased, are the n
\* components of the extension
TrailingMatch(name, ext) ==
    Let(Suffixes(name), LAMBDA sufs :
    Let(Components(ext), LAMBDA comps :
        /\ Len(comps) <= Len(sufs)
        /\ \A j \in 1..Len(comps) :
              Lower(SubSeq(sufs[Len(sufs) - Len(comps) + j], 2,
                           Len(sufs[Len(sufs) - Len(comps) + j]))) = comps[j]))

\* the answer holds exactly the direct child files with matching suffixes;
\* archive.tar.gz is in it for gz and tar.gz, not for zip
SearchAnswer ==
    /\ \A c \in Entries(ret.path) \cup SeqToSet(ret.result) :
          InSeq(c, ret.result) <=>
             (c \in Entries(ret.path) /\ IsFile(c) /\ TrailingMatch(NameOf(c), ret.ext))
    /\ (Append(ret.path, N_archive) \in Entries(ret.path)
           /\ IsFile(Append(ret.path, N_archive))) =>
          /\ ret.ext \in {E_gz, E_targz} => InSeq(Append(ret.path, N_archive), ret.result)
          /\ ret.ext = E_zip => ~InSeq(Append(ret.path, N_archive), ret.result)

Searchable(dir) ==
    /\ IsDir(dir) /\ ListError(dir) = "none"
    /\ \A c \in Entries(dir) : ~StatRaises(c)

RECURSIVE SumSeq(_)
SumSeq(s) == IF s = <<>> THEN 0 ELSE s[1] + SumSeq(Tail(s))

\* the bytes of the regular, non-link files in the directories of level at
\* most L under dir; an entry or a directory whose access raises adds 0
RECURSIVE ExpectedSize(_, _, _)
ExpectedSize(dir, level, L) ==
    IF level > L \/ ListError(dir) # "none" THEN 0
    ELSE Let(Listing(dir), LAMBDA lst :
             SumSeq([k \in 1..Len(lst) |->
                       IF LStatRaises(lst[k]) \/ IsSymlink(lst[k]) THEN 0
                       ELSE IF IsFile(lst[k]) THEN Size(lst[k])
                       ELSE IF IsDir(lst[k]) THEN ExpectedSize(lst[k], level + 1, L)
                       ELSE 0]))

\* C20: for a directory D and bound L, obter_tamanho never raises and returns
\* the bytes of the regular non-link files in directories of level at most L,
\* an entry whose access raises adding 0 without affecting its siblings; a
\* path that does not exist gives 0
C20_DirectorySize ==
    JustSized =>
        /\ IsDir(ret.path) =>
              ret.exc = "none" /\ ret.total = ExpectedSize(ret.path, 1, ret.limite)
        /\ Stat(ret.path).err = "ENOENT" => ret.exc = "none" /\ ret.total = 0

\* what the code does hold: the same while no single entry refuses its stat
C20_SizeAsCoded ==
    (JustSized /\ \A i \in Inodes : ~fs[i].denied) =>
        /\ IsDir(ret.path) =>
              ret.exc = "none" /\ ret.total = ExpectedSize(ret.path, 1, ret.limite)
        /\ Stat(ret.path).err = "ENOENT" => ret.exc = "none" /\ ret.total = 0

NextFolders ==
    \/ Env
    \/ \E a \in CreateArgs : EnvCreate(a[1], a[2], a[3])
    \/ \E i \in Inodes : EnvDeny(i)
    \/ \E a \in SearchArgs : Search(a[1], a[2])
    \/ \E a \in SizeArgs : SizeOf(a[1], a[2])

SpecFolders == Init /\ [][NextFolders]_vars

(***************************************************************************)
(* The name validator.                                                     *)
(***************************************************************************)
\* Path(name).stem: the name without its last suffix
Stem(name) ==
    Let(RFindDot(name), LAMBDA i :
        IF 1 < i /\ i < Len(name) THEN SubSeq(name, 1, i - 1) ELSE name)

NameFails == ret.exc # "none" \/ ~ret.status

NamePasses == ret.exc = "none" /\ ret.status

LegalChars(name) == \A k \in 1..Len(name) : name[k] \notin Proibidos

\* C18: ResultadoNome fails for a reserved name in any letter case, for a name
\* whose stem before the extension is reserved, for a name starting with "."
\* and for a name of 256 characters; it passes for a 255-character name of
\* legal characters
C18_NameValidator ==
    ret.op = "name" =>
        /\ Upper(ret.value) \in Reservados => NameFails
        /\ Upper(Stem(ret.value)) \in Reservados => NameFails
        /\ StartsWith(ret.value, <<".">>) => NameFails
        /\ Len(ret.value) = MaxLength + 1 => NameFails
        /\ (Len(ret.value) = MaxLength /\ LegalChars(ret.value)
              /\ ~StartsWith(ret.value, <<".">>)) => NamePasses

\* what the code does hold: the same with the reserved names compared to the
\* whole name only, so that con.txt passes
C18_NameAsCoded ==
    ret.op = "name" =>
        /\ Upper(ret.value) \in Reservados => NameFails
        /\ (Upper(Stem(ret.value)) \in Reservados /\ Stem(ret.value) # ret.value
              /\ Len(ret.value) <= MaxLength /\ LegalChars(ret.value)) => NamePasses
        /\ StartsWith(ret.value, <<".">>) => NameFails
        /\ Len(ret.value) = MaxLength + 1 => NameFails
        /\ (Len(ret.value) = MaxLength /\ LegalChars(ret.value)
              /\ ~StartsWith(ret.value, <<".">>)) => NamePasses

NextNames == ValidateName

SpecNames == InitArg(Names) /\ [][NextNames]_vars

(***************************************************************************)
(* Size formatting.                                                        *)
(***************************************************************************)
Units == <<"B", "KB", "MB", "GB", "TB", "PB">>

Min(a, b) == IF a <= b THEN a ELSE b

\* how many times n can be divided by 1024 while it is at least 1024
Steps(n) == IF n = <<>> THEN 0 ELSE Len(n) - 1

\* the unit number k of a list of so many units, capped at its last one
UnitAt(n, units) == Units[Min(Steps(n), units - 1) + 1]

\* C19: for every byte count n >= 0 the formatters end and report n in unit
\* number k, k the number of times n can be divided by 1024 while at least
\* 1024, capped at the last unit of the list (PB, and TB for the collector);
\* 1023 is in B, 1024 in KB, 1048576 in MB
C19_UnitStepping ==
    ret.op = "format" =>
        /\ ret.comuns.unit = UnitAt(ret.n, 6)
        /\ ret.global.unit = UnitAt(ret.n, 6)
        /\ ret.coletor.unit = UnitAt(ret.n, 5)
        /\ ret.n = <<1023>> => ret.comuns.unit = "B" /\ ret.global.unit = "B"
        /\ ret.n = <<0, 1>> => ret.comuns.unit = "KB" /\ ret.global.unit = "KB"
        /\ ret.n = <<0, 0, 1>> => ret.comuns.unit = "MB" /\ ret.global.unit = "MB"

\* a count beyond 1024 PB: the unit stays the last of each list
C19_Witness ==
    /\ ret.op = "format" /\ Len(ret.n) = 7
    /\ ret.comuns.unit = "PB" /\ ret.global.unit = "PB" /\ ret.coletor.unit = "TB"
    /\ Len(ret.comuns.quotient.int) = 2 /\ Len(ret.coletor.quotient.int) = 3

\* C30: File.readable_size steps like the shared formatter with the units
\* B, KB, MB, GB: every raw_size is reported in unit number k, k the number
\* of times it can be divided by 1024 while at least 1024, capped at GB;
\* 1048576 is in MB and 20000 in KB.
C30_ReadableSize ==
    ret.op = "readable_size" =>
        /\ ret.file.unit = UnitAt(ret.n, 4)
        /\ ret.n = <<0, 0, 1>> => ret.file.unit = "MB"
        /\ ret.n = TwentyThousand => ret.file.unit = "KB"

\* what holds of the code: a size from 1024 up to 10239 is divided once and
\* reported in KB, every other size is reported undivided in B
C30_ReadableAsCoded ==
    ret.op = "readable_size" =>
        IF Len(ret.n) = 2 /\ ret.n[2] < 10
        THEN ret.file.unit = "KB" /\ ret.file.quotient = Div1024(Quotient(ret.n))
        ELSE ret.file.unit = "B" /\ ret.file.quotient = Quotient(ret.n)

NextSizes == Format \/ ReadSize

SpecSizes == InitArg(ByteCounts) /\ [][NextSizes]_vars

====
